---- MODULE Spec2Model ----
(***************************************************************************)
(* A model of the conversational turn engine of the voice assistant:       *)
(*   - ConversationMemory (main.py), the bounded FIFO of turns;            *)
(*   - ToolManager (src/tool_calls/tool_manager.py): parse_tool_call,      *)
(*     execute_tool_call, process_response_with_tools and                  *)
(*     format_tool_result_for_user;                                        *)
(*   - VoiceAssistant._process_speech (main.py), the per-utterance turn.   *)
(*   - VoiceAssistant._audio_callback, _process_audio_chunk and run        *)
(*     (main.py): capture, the audio queue and the speech segmentation.    *)
(*                                                                         *)
(* Texts are sequences of tokens.  A token is either one character that    *)
(* the regular expressions and the JSON grammar distinguish (a quote, a    *)
(* brace, a colon, a comma, a space, a newline) or an atomic piece of text *)
(* that none of them looks inside (a word, a call marker).                 *)
(***************************************************************************)
EXTENDS Integers, Sequences, FiniteSets, TLC

VARIABLES
    max_turns,      \* ConversationMemory.max_turns
    turns,          \* ConversationMemory.turns
    added,          \* history: what add_turn was called with since the last clear()
    llm_response,   \* the generated text handed to process_response_with_tools
    processed,      \* what process_response_with_tools returned for it
    tools,          \* ToolManager.tools: the names registered
    last_transcript,\* VoiceAssistant.last_transcript
    last_response,  \* VoiceAssistant.last_response
    kb,             \* the texts add_to_knowledge_base has stored
    events,         \* the calls made by the latest _process_speech, in order
    crashed,        \* an exception has left _process_speech (and run)
    utterances,     \* history: the number of utterances handed to _process_speech
    last_op,        \* the operation that produced this state
    audio_queue,    \* VoiceAssistant.audio_queue: the frames put and not yet got
    buffered_audio, \* VoiceAssistant.buffered_audio
    speech_active,  \* VoiceAssistant.speech_active
    last_speech_time, \* VoiceAssistant.last_speech_time
    now,            \* time.time(), in quarters of a second since construction
    in_flight,      \* the number of _process_speech calls begun and not ended
    captured,       \* history: the frames _audio_callback was called with, in order
    consumed,       \* history: the frames audio_queue.get() returned, in order
    emitted,        \* history: the utterances handed to _process_speech
    last_actionable,  \* VoiceAssistant.last_actionable
    last_contextable, \* VoiceAssistant.last_contextable
    user_input,     \* the generation request the latest turn composed
    twin,           \* history: what the latest turn would have left had the
                    \* contextable verdict been the opposite one
    registered_tasks, \* TaskExecutor.registered_tasks
    task_log,       \* history: the register_task calls, in order
    task_calls,     \* history: the handler calls of the latest execute_task
    task_io         \* history: the arguments and the result of the latest execute_task

task_vars == <<registered_tasks, task_log, task_calls, task_io>>

gate_vars == <<last_actionable, last_contextable, user_input, twin>>

audio_vars == <<audio_queue, buffered_audio, speech_active, last_speech_time, now,
                in_flight, captured, consumed, emitted>>

vars == <<max_turns, turns, added, llm_response, processed, tools,
          last_transcript, last_response, kb, events, crashed, utterances, last_op,
          audio_queue, buffered_audio, speech_active, last_speech_time, now,
          in_flight, captured, consumed, emitted,
          last_actionable, last_contextable, user_input, twin,
          registered_tasks, task_log, task_calls, task_io>>

\* self.last_actionable = None, self.last_contextable = None
None == [k |-> "none"]

\* the TaskExecutor after __init__: self.registered_tasks = {}
TasksConstructed ==
    /\ registered_tasks = <<>>
    /\ task_log = <<>>
    /\ task_calls = <<>>
    /\ task_io = None

\* the gates' results, the request and the twin before the first turn
GatesConstructed ==
    /\ last_actionable = None
    /\ last_contextable = None
    /\ user_input = None
    /\ twin = None

\* the capture and segmentation state VoiceAssistant.__init__ leaves
AudioConstructed ==
    /\ audio_queue = <<>>
    /\ buffered_audio = <<>>
    /\ speech_active = FALSE
    /\ last_speech_time = 0
    /\ now = 0
    /\ in_flight = 0
    /\ captured = <<>>
    /\ consumed = <<>>
    /\ emitted = <<>>

(***************************************************************************)
(* Tokens                                                                  *)
(***************************************************************************)
OPEN  == "<tool_call>"
CLOSE == "</tool_call>"
SP    == " "
NL    == "\n"
Q     == "\""
LB    == "{"
RB    == "}"
COLON == ":"
COMMA == ","

\* \s of the regular expressions, and what str.strip() removes
IsWs(t) == t \in {SP, NL}

\* the tokens that contain the character '<' (excluded by [^<])
HasLt(t) == t \in {OPEN, CLOSE}

\* JSON number literals of the model
NumTokens == {"4", "60"}

(***************************************************************************)
(* Sequence helpers (Python str operations on token sequences)             *)
(***************************************************************************)
Min(S) == CHOOSE x \in S : \A y \in S : x <= y

Max(S) == CHOOSE x \in S : \A y \in S : x >= y

\* s[a..b] as Python slices it: empty when the range is empty
Slice(s, a, b) == IF a > b THEN <<>> ELSE SubSeq(s, a, b)

\* first index >= i of s that holds no whitespace; Len(s)+1 when there is none
SkipWs(s, i) ==
    LET rest == {k \in i..Len(s) : ~IsWs(s[k])}
    IN  IF rest = {} THEN Len(s) + 1 ELSE Min(rest)

\* str.strip()
Strip(s) ==
    LET keep == {k \in 1..Len(s) : ~IsWs(s[k])}
    IN  IF keep = {} THEN <<>> ELSE SubSeq(s, Min(keep), Max(keep))

\* does sep occur in s at index i
OccursAt(s, sep, i) ==
    /\ i >= 1
    /\ i + Len(sep) - 1 <= Len(s)
    /\ \A k \in 1..Len(sep) : s[i + k - 1] = sep[k]

\* s.split(sep)[0]: the part of s before the first occurrence of sep
SplitFirst(s, sep) ==
    LET occ == {i \in 1..Len(s) : OccursAt(s, sep, i)}
    IN  IF occ = {} THEN s ELSE Slice(s, 1, Min(occ) - 1)

\* is sub a contiguous part of s ("sub in s" on strings)
Contains(s, sub) == \E i \in 1..(Len(s) + 1) : Len(sub) = 0 \/ OccursAt(s, sub, i)

(***************************************************************************)
(* JSON values (what json.loads returns) and Python dict operations.       *)
(* A value is a record [k, s, m]: k is its kind, s the tokens of a string  *)
(* or number, m the members of an object in insertion order.               *)
(***************************************************************************)
JNone == [k |-> "none", s |-> <<>>, m |-> <<>>]

JStr(toks) == [k |-> "str", s |-> toks, m |-> <<>>]

JNum(tok) == [k |-> "num", s |-> <<tok>>, m |-> <<>>]

JObj(members) == [k |-> "obj", s |-> <<>>, m |-> members]

Member(key, val) == [key |-> key, val |-> val]

\* a one-token key, as the code writes its dict keys
K(word) == <<word>>

\* key in d
Has(d, key) == d.k = "obj" /\ \E i \in 1..Len(d.m) : d.m[i].key = key

\* d[key], for a key that is in d
Get(d, key) == d.m[CHOOSE i \in 1..Len(d.m) : d.m[i].key = key].val

\* d.get(key, default)
GetOr(d, key, default) == IF Has(d, key) THEN Get(d, key) ELSE default

\* members with d[key] = val done: a repeated key keeps its place and takes the new value
Put(members, key, val) ==
    IF \E i \in 1..Len(members) : members[i].key = key
    THEN [i \in 1..Len(members) |->
            IF members[i].key = key THEN Member(key, val) ELSE members[i]]
    ELSE Append(members, Member(key, val))

(***************************************************************************)
(* json.loads on a token sequence: objects, strings and numbers, with      *)
(* whitespace between the lexemes.  A string runs from a quote to the next *)
(* quote and may hold any token but a newline (a control character).       *)
(***************************************************************************)
ParseFail == [ok |-> FALSE, val |-> JNone, next |-> 0]

ParseString(s, i) ==
    LET qs == {j \in (i + 1)..Len(s) : s[j] = Q}
    IN  IF qs = {} THEN ParseFail
        ELSE LET j == Min(qs)
                 body == Slice(s, i + 1, j - 1)
             IN  IF \E n \in 1..Len(body) : body[n] = NL THEN ParseFail
                 ELSE [ok |-> TRUE, val |-> JStr(body), next |-> j + 1]

RECURSIVE ParseValue(_, _), ParseMembers(_, _, _)

ParseValue(s, i) ==
    IF i > Len(s) THEN ParseFail
    ELSE IF s[i] = Q THEN ParseString(s, i)
    ELSE IF s[i] \in NumTokens THEN [ok |-> TRUE, val |-> JNum(s[i]), next |-> i + 1]
    ELSE IF s[i] = LB
         THEN LET j == SkipWs(s, i + 1)
              IN  IF j <= Len(s) /\ s[j] = RB
                  THEN [ok |-> TRUE, val |-> JObj(<<>>), next |-> j + 1]
                  ELSE ParseMembers(s, j, <<>>)
    ELSE ParseFail

ParseMembers(s, j, acc) ==
    IF j > Len(s) \/ s[j] # Q THEN ParseFail
    ELSE LET key == ParseString(s, j)
         IN  IF ~key.ok THEN ParseFail
             ELSE LET c == SkipWs(s, key.next)
                  IN  IF c > Len(s) \/ s[c] # COLON THEN ParseFail
                      ELSE LET v == ParseValue(s, SkipWs(s, c + 1))
                           IN  IF ~v.ok THEN ParseFail
                               ELSE LET d == SkipWs(s, v.next)
                                        acc2 == Put(acc, key.val.s, v.val)
                                    IN  IF d > Len(s) THEN ParseFail
                                        ELSE IF s[d] = RB
                                             THEN [ok |-> TRUE, val |-> JObj(acc2), next |-> d + 1]
                                        ELSE IF s[d] = COMMA
                                             THEN ParseMembers(s, SkipWs(s, d + 1), acc2)
                                        ELSE ParseFail

\* json.loads(s): [ok |-> FALSE] stands for JSONDecodeError
JsonLoads(s) ==
    LET v == ParseValue(s, SkipWs(s, 1))
    IN  IF v.ok /\ SkipWs(s, v.next) = Len(s) + 1
        THEN [ok |-> TRUE, val |-> v.val]
        ELSE [ok |-> FALSE, val |-> JNone]

(***************************************************************************)
(* The regular expressions of parse_tool_call, each as re.search computes  *)
(* it on a token sequence: [hit, g] where g is group(1) of the leftmost    *)
(* match.                                                                  *)
(***************************************************************************)
NoMatch == [hit |-> FALSE, g |-> <<>>]

Opens(s) == {i \in 1..Len(s) : s[i] = OPEN}

\* after position e comes \s*(?:\n|$): the whitespace run that follows e
\* reaches the end of the text or holds a newline
EolAfter(s, e) ==
    LET r == SkipWs(s, e + 1)
    IN  r = Len(s) + 1 \/ \E n \in (e + 1)..(r - 1) : s[n] = NL

\* r'<tool_call>\s*(.*?)\s*</tool_call>' with re.DOTALL: from the first
\* opening marker that a closing marker follows, up to the first closing
\* marker after it; the greedy \s* and the lazy .*? leave the group without
\* whitespace at either end
MatchComplete(s) ==
    LET starts == {i \in Opens(s) : \E j \in (i + 1)..Len(s) : s[j] = CLOSE}
    IN  IF starts = {} THEN NoMatch
        ELSE LET i == Min(starts)
                 j == Min({n \in (i + 1)..Len(s) : s[n] = CLOSE})
             IN  [hit |-> TRUE, g |-> Strip(Slice(s, i + 1, j - 1))]

\* the ends e of r'<tool_call>\s*(\{.*?\})\s*(?:\n|$)' (re.DOTALL) matched
\* at the opening marker i
IncompleteEnds(s, i) ==
    LET a == SkipWs(s, i + 1)
    IN  IF a <= Len(s) /\ s[a] = LB
        THEN {e \in (a + 1)..Len(s) : s[e] = RB /\ EolAfter(s, e)}
        ELSE {}

MatchIncomplete(s) ==
    LET starts == {i \in Opens(s) : IncompleteEnds(s, i) # {}}
    IN  IF starts = {} THEN NoMatch
        ELSE LET i == Min(starts)
             IN  [hit |-> TRUE, g |-> Slice(s, SkipWs(s, i + 1), Min(IncompleteEnds(s, i)))]

\* the ends e of r'<tool_call>\s*(\{[^<]*?\})' matched at the opening marker i:
\* the first closing brace, when no '<' stands before it
FlexibleEnds(s, i) ==
    LET a == SkipWs(s, i + 1)
        rbs == {e \in (a + 1)..Len(s) : s[e] = RB}
    IN  IF a <= Len(s) /\ s[a] = LB /\ rbs # {}
           /\ \A n \in (a + 1)..(Min(rbs) - 1) : ~HasLt(s[n])
        THEN {Min(rbs)}
        ELSE {}

MatchFlexible(s) ==
    LET starts == {i \in Opens(s) : FlexibleEnds(s, i) # {}}
    IN  IF starts = {} THEN NoMatch
        ELSE LET i == Min(starts)
             IN  [hit |-> TRUE, g |-> Slice(s, SkipWs(s, i + 1), Min(FlexibleEnds(s, i)))]

\* the end of r'\{"tool_name":\s*"[^"]+",\s*"parameters":\s*\{[^}]*\}\}' matched
\* at position p, followed by \s*$ (re.MULTILINE); 0 when it does not match
BareEnd(s, p) ==
    IF ~OccursAt(s, <<LB, Q, "tool_name", Q, COLON>>, p) THEN 0
    ELSE LET a1 == SkipWs(s, p + 5)
             qs == {n \in (a1 + 1)..Len(s) : s[n] = Q}
         IN  IF a1 > Len(s) \/ s[a1] # Q \/ qs = {} THEN 0
             ELSE LET n1 == Min(qs)
                      a2 == SkipWs(s, n1 + 2)
                      a3 == SkipWs(s, a2 + 4)
                      rbs == {n \in (a3 + 1)..Len(s) : s[n] = RB}
                  IN  IF /\ n1 > a1 + 1
                         /\ OccursAt(s, <<COMMA>>, n1 + 1)
                         /\ OccursAt(s, <<Q, "parameters", Q, COLON>>, a2)
                         /\ OccursAt(s, <<LB>>, a3)
                         /\ rbs # {}
                         /\ OccursAt(s, <<RB, RB>>, Min(rbs))
                         /\ EolAfter(s, Min(rbs) + 1)
                      THEN Min(rbs) + 1
                      ELSE 0

\* bare_json_pattern, r'^\s*(...)\s*$' with re.MULTILINE: the match starts
\* at a line start and \s* runs to the first token of the value
BareLead(s, p) ==
    \E q \in 1..p : /\ q = 1 \/ s[q - 1] = NL
                    /\ \A n \in q..(p - 1) : IsWs(s[n])

MatchBare(s) ==
    LET starts == {p \in 1..Len(s) : BareLead(s, p) /\ BareEnd(s, p) # 0}
    IN  IF starts = {} THEN NoMatch
        ELSE [hit |-> TRUE, g |-> Slice(s, Min(starts), BareEnd(s, Min(starts)))]

(***************************************************************************)
(* ToolManager.parse_tool_call                                             *)
(***************************************************************************)
\* the word of ' U+548C ', the Chinese "and" the code splits on
ZH_AND == "U+548C"

\* {"error": "Could not parse any valid tool call JSON"}
PARSE_ERROR == JObj(<<Member(K("error"), JStr(<<"Could not parse any valid tool call JSON">>))>>)

\* the loop over the three patterns: group(1).strip() of the first that
\* matches, <<>> when none does
FirstGroup(m1, m2, m3) ==
    IF m1.hit THEN Strip(m1.g)
    ELSE IF m2.hit THEN Strip(m2.g)
    ELSE IF m3.hit THEN Strip(m3.g)
    ELSE <<>>

\* tool_call_json after the loop over the three patterns
WrappedJson(response) ==
    FirstGroup(MatchComplete(response), MatchIncomplete(response), MatchFlexible(response))

\* group(1).strip() of the bare pattern, <<>> when it does not match
BareGroup(b) == IF b.hit THEN Strip(b.g) ELSE <<>>

\* the fallback without the bare pattern: only the wrapped patterns count
OrBareSkipped(wrapped, response) == wrapped

\* "if not tool_call_json": the bare pattern is tried on response.strip()
\* when the wrapped patterns left tool_call_json empty
OrBare(wrapped, response) ==
    IF wrapped # <<>> THEN wrapped ELSE BareGroup(MatchBare(Strip(response)))

\* tool_call_json before the split
ToolCallJson(response) == OrBare(WrappedJson(response), response)

\* possible_jsons
PossibleJsons(tool_call_json) ==
    << tool_call_json,
       SplitFirst(tool_call_json, <<SP, ZH_AND, SP>>),
       SplitFirst(tool_call_json, <<SP, "and", SP>>),
       SplitFirst(tool_call_json, <<NL>>) >>

Continue == [ret |-> FALSE, val |-> JNone]

\* the loop body without the calculator repair
TryLoadedUnrepaired(loaded) ==
    IF ~loaded.ok THEN Continue
    ELSE IF ~Has(loaded.val, K("tool_name")) \/ ~Has(loaded.val, K("parameters"))
         THEN Continue
    ELSE [ret |-> TRUE, val |-> loaded.val]

\* the loop body after json.loads: [ret, val], ret = FALSE for "continue"
\* and ret = TRUE for "return val"
TryLoaded(loaded) ==
    IF ~loaded.ok THEN Continue
    ELSE IF Has(loaded.val, K("expression")) /\ ~Has(loaded.val, K("tool_name"))
         THEN [ret |-> TRUE,
               val |-> JObj(<<Member(K("tool_name"), JStr(<<"calculator">>)),
                              Member(K("parameters"), loaded.val)>>)]
    ELSE IF ~Has(loaded.val, K("tool_name")) \/ ~Has(loaded.val, K("parameters"))
         THEN Continue
    ELSE [ret |-> TRUE, val |-> loaded.val]

\* the loop body on a stripped candidate
TryStripped(c) ==
    IF Len(c) > 0 /\ c[1] = LB /\ c[Len(c)] = RB THEN TryLoaded(JsonLoads(c)) ELSE Continue

\* one pass of the loop over possible_jsons
TryCandidate(json_candidate) == TryStripped(Strip(json_candidate))

\* the loop over possible_jsons: the value of the first pass that returns,
\* the parse-error marker when every pass continues
FirstReturn(passes) ==
    IF \A n \in 1..Len(passes) : ~passes[n].ret THEN PARSE_ERROR
    ELSE passes[Min({n \in 1..Len(passes) : passes[n].ret})].val

TryAll(cands) == FirstReturn([n \in 1..Len(cands) |-> TryCandidate(cands[n])])

ParseJson(tool_call_json) ==
    IF tool_call_json = <<>> THEN JNone ELSE TryAll(PossibleJsons(tool_call_json))

\* parse_tool_call(response): JNone for None, else the dict returned
parse_tool_call(response) == ParseJson(ToolCallJson(response))

(***************************************************************************)
(* The tool executors, as execute_tool_call sees them: binding the keyword *)
(* arguments either raises TypeError or the executor runs and returns a    *)
(* payload; each execute() catches what happens inside it and returns      *)
(* {"error": ...} instead.                                                 *)
(***************************************************************************)
JTrue == [k |-> "bool", s |-> <<"True">>, m |-> <<>>]

JFalse == [k |-> "bool", s |-> <<"False">>, m |-> <<>>]

JBool(b) == IF b THEN JTrue ELSE JFalse

EmptyDict == JObj(<<>>)

Keys(d) == {d.m[i].key : i \in 1..Len(d.m)}

\* self.tools after __init__ when GoogleCalendarManager() raised, and when it did not
BaseTools == {"calculator", "weather_checker"}

AllTools == BaseTools \cup {"google_calendar"}

\* the keyword parameters of each execute(): [all, required]
Signature(tool_name) ==
    CASE tool_name = "calculator" ->
            [all |-> {K("expression"), K("mode"), K("variable")}, required |-> {K("expression")},
             kwargs |-> FALSE]
      [] tool_name = "weather_checker" ->
            [all |-> {K("location"), K("units")}, required |-> {K("location")}, kwargs |-> FALSE]
      [] tool_name = "web_searcher" ->
            [all |-> {K("query"), K("num_results"), K("search_type"), K("language")},
             required |-> {K("query")}, kwargs |-> FALSE]
      [] OTHER ->
            [all |-> {K("action")}, required |-> {K("action")}, kwargs |-> TRUE]

\* tool.execute(**parameters) binds: parameters is a mapping that names every
\* required parameter and, without **kwargs, no other
Binds(tool_name, parameters) ==
    LET sig == Signature(tool_name)
    IN  /\ parameters.k = "obj"
        /\ sig.required \subseteq Keys(parameters)
        /\ sig.kwargs \/ Keys(parameters) \subseteq sig.all

\* how an executor ends: outcome "ok" returns a success payload, "err" returns
\* the {"error": ...} every execute() returns for a failure it catches inside
\* (as Calculator.execute does for an expression that is no string), "raise"
\* lets an exception out of execute()
ExecOutcomes == {"ok", "err", "raise"}

\* what GoogleCalendarManager.execute returns for an action that succeeds;
\* events and calendars are kept opaque, no event is found
CalendarPayload(action) ==
    IF action = JStr(<<"list_events">>)
    THEN JObj(<<Member(K("action"), action),
                Member(K("events"), JStr(<<>>)),
                Member(K("count"), JNum("0"))>>)
    ELSE IF action = JStr(<<"list_calendars">>)
    THEN JObj(<<Member(K("action"), action),
                Member(K("calendars"), JStr(<<"calendars">>)),
                Member(K("count"), JNum("1"))>>)
    ELSE IF action = JStr(<<"create_event">>)
    THEN JObj(<<Member(K("action"), action),
                Member(K("message"), JStr(<<"Event created successfully">>))>>)
    ELSE JObj(<<Member(K("error"), JStr(<<"Unknown calendar action: ">> \o action.s))>>)

Payload(tool_name, parameters, outcome) ==
    IF outcome = "err" \/ (tool_name = "calculator" /\ Get(parameters, K("expression")).k # "str")
    THEN JObj(<<Member(K("error"), JStr(<<"tool failed">>))>>)
    ELSE CASE tool_name = "calculator" ->
                JObj(<<Member(K("result"), JNum("4")),
                       Member(K("formatted_result"), JStr(<<"4">>)),
                       Member(K("calculation"),
                              JStr(Get(parameters, K("expression")).s \o <<" = ", "4">>)),
                       Member(K("original_expression"), Get(parameters, K("expression")))>>)
           [] tool_name = "weather_checker" ->
                JObj(<<Member(K("location"), Get(parameters, K("location"))),
                       Member(K("summary"),
                              JStr(<<"Weather in ">> \o Get(parameters, K("location")).s)),
                       Member(K("success"), JTrue)>>)
           [] tool_name = "web_searcher" ->
                JObj(<<Member(K("query"), Get(parameters, K("query"))),
                       Member(K("search_type"), JStr(<<"general">>)),
                       Member(K("summary"), JStr(<<"Found results">>))>>)
           [] OTHER -> CalendarPayload(Get(parameters, K("action")))

(***************************************************************************)
(* ToolManager.execute_tool_call: [ret, invoked, raised].  ret is the dict *)
(* returned, invoked the log of the executors called, in order, each with  *)
(* how it ended, raised whether an exception left the method.              *)
(***************************************************************************)
UnknownToolError(tool_name) ==
    JObj(<<Member(K("error"), JStr(<<"Unknown tool: ">> \o tool_name.s))>>)

\* the dict of the except branch; str(e) is kept opaque
ExecutionError(tool_name, parameters) ==
    JObj(<<Member(K("tool_name"), tool_name),
           Member(K("parameters"), parameters),
           Member(K("error"), JStr(<<"Tool execution error: ", "str(e)">>)),
           Member(K("success"), JFalse)>>)

ExecutionResult(tool_name, parameters, result) ==
    JObj(<<Member(K("tool_name"), tool_name),
           Member(K("parameters"), parameters),
           Member(K("result"), result),
           Member(K("success"), JBool(~Has(result, K("error"))))>>)

\* tool_name in self.tools, for a tool_name that can be hashed
Registered(registry, tool_name) ==
    tool_name.k = "str" /\ Len(tool_name.s) = 1 /\ tool_name.s[1] \in registry

\* one call of tool.execute and how it ended: "returned" or "raised" (a call
\* whose arguments do not bind raises before the executor's body runs)
Invocation(name, ended) == [tool |-> name, ended |-> ended]

\* tool.execute(**parameters) raises: the arguments do not bind, or the
\* executor lets an exception out
ExecutorRaises(name, parameters, outcome) ==
    ~Binds(name, parameters) \/ outcome = "raise"

\* execute_tool_call with a retry: the executor is called again when its
\* first call raised
execute_tool_call_retry(registry, tool_call, outcome) ==
    LET tool_name == GetOr(tool_call, K("tool_name"), JNone)
        parameters == GetOr(tool_call, K("parameters"), EmptyDict)
        name == tool_name.s[1]
    IN  IF Has(tool_call, K("error"))
        THEN [ret |-> tool_call, invoked |-> <<>>, raised |-> FALSE]
        ELSE IF tool_name.k = "obj"
        THEN [ret |-> JNone, invoked |-> <<>>, raised |-> TRUE]
        ELSE IF ~Registered(registry, tool_name)
        THEN [ret |-> UnknownToolError(tool_name), invoked |-> <<>>, raised |-> FALSE]
        ELSE IF ExecutorRaises(name, parameters, outcome)
        THEN [ret |-> ExecutionError(tool_name, parameters),
              invoked |-> <<Invocation(name, "raised"), Invocation(name, "raised")>>,
              raised |-> FALSE]
        ELSE [ret |-> ExecutionResult(tool_name, parameters, Payload(name, parameters, outcome)),
              invoked |-> <<Invocation(name, "returned")>>, raised |-> FALSE]

\* execute_tool_call without its try/except: what the executor raises leaves
\* the method
execute_tool_call_uncaught(registry, tool_call, outcome) ==
    LET tool_name == GetOr(tool_call, K("tool_name"), JNone)
        parameters == GetOr(tool_call, K("parameters"), EmptyDict)
        name == tool_name.s[1]
    IN  IF Has(tool_call, K("error"))
        THEN [ret |-> tool_call, invoked |-> <<>>, raised |-> FALSE]
        ELSE IF tool_name.k = "obj"
        THEN [ret |-> JNone, invoked |-> <<>>, raised |-> TRUE]
        ELSE IF ~Registered(registry, tool_name)
        THEN [ret |-> UnknownToolError(tool_name), invoked |-> <<>>, raised |-> FALSE]
        ELSE IF ExecutorRaises(name, parameters, outcome)
        THEN [ret |-> JNone, invoked |-> <<Invocation(name, "raised")>>, raised |-> TRUE]
        ELSE [ret |-> ExecutionResult(tool_name, parameters, Payload(name, parameters, outcome)),
              invoked |-> <<Invocation(name, "returned")>>, raised |-> FALSE]

\* "tool_name not in self.tools" stands before the try: a dict cannot be
\* hashed, so for a tool_name that is a JSON object the test raises TypeError
\* and the exception leaves the method
execute_tool_call(registry, tool_call, outcome) ==
    LET tool_name == GetOr(tool_call, K("tool_name"), JNone)
        parameters == GetOr(tool_call, K("parameters"), EmptyDict)
        name == tool_name.s[1]
    IN  IF Has(tool_call, K("error"))
        THEN [ret |-> tool_call, invoked |-> <<>>, raised |-> FALSE]
        ELSE IF tool_name.k = "obj"
        THEN [ret |-> JNone, invoked |-> <<>>, raised |-> TRUE]
        ELSE IF ~Registered(registry, tool_name)
        THEN [ret |-> UnknownToolError(tool_name), invoked |-> <<>>, raised |-> FALSE]
        ELSE IF ExecutorRaises(name, parameters, outcome)
        THEN [ret |-> ExecutionError(tool_name, parameters),
              invoked |-> <<Invocation(name, "raised")>>, raised |-> FALSE]
        ELSE [ret |-> ExecutionResult(tool_name, parameters, Payload(name, parameters, outcome)),
              invoked |-> <<Invocation(name, "returned")>>, raised |-> FALSE]

(***************************************************************************)
(* The clean-up of process_response_with_tools, one operator per re.sub    *)
(***************************************************************************)
RECURSIVE RemoveComplete(_), RemoveIncomplete(_), CollapseBlankLines(_)

\* re.sub(r'<tool_call>.*?</tool_call>', '', s, flags=re.DOTALL)
RemoveComplete(s) ==
    LET starts == {i \in Opens(s) : \E j \in (i + 1)..Len(s) : s[j] = CLOSE}
    IN  IF starts = {} THEN s
        ELSE LET i == Min(starts)
                 j == Min({n \in (i + 1)..Len(s) : s[n] = CLOSE})
             IN  Slice(s, 1, i - 1) \o RemoveComplete(Slice(s, j + 1, Len(s)))

\* the closing braces e at which r'<tool_call>\s*\{[^<]*?\}\s*(?:\n|$)' can
\* end its value when matched at the opening marker i
StripEnds(s, i) ==
    LET a == SkipWs(s, i + 1)
    IN  IF a <= Len(s) /\ s[a] = LB
        THEN {e \in (a + 1)..Len(s) :
                /\ s[e] = RB
                /\ \A n \in (a + 1)..(e - 1) : ~HasLt(s[n])
                /\ EolAfter(s, e)}
        ELSE {}

\* where that match ends: the greedy \s* takes the whole whitespace run when
\* it reaches the end of the text, and gives back down to its last newline
\* otherwise
StripMatchEnd(s, e) ==
    LET r == SkipWs(s, e + 1)
    IN  IF r = Len(s) + 1 THEN Len(s)
        ELSE Max({n \in (e + 1)..(r - 1) : s[n] = NL})

\* re.sub(r'<tool_call>\s*\{[^<]*?\}\s*(?:\n|$)', '', s, flags=re.DOTALL)
RemoveIncomplete(s) ==
    LET starts == {i \in Opens(s) : StripEnds(s, i) # {}}
    IN  IF starts = {} THEN s
        ELSE LET i == Min(starts)
                 last == StripMatchEnd(s, Min(StripEnds(s, i)))
             IN  Slice(s, 1, i - 1) \o RemoveIncomplete(Slice(s, last + 1, Len(s)))

IsNotTag(t) == ~HasLt(t)

\* re.sub(r'</?tool_call[^>]*>', '', s)
RemoveTags(s) == SelectSeq(s, IsNotTag)

\* re.sub(r'\n\s*\n', '\n', s): a newline, and the whitespace after it up to
\* the last newline of the run
CollapseBlankLines(s) ==
    LET starts == {i \in 1..Len(s) :
                      /\ s[i] = NL
                      /\ \E n \in (i + 1)..(SkipWs(s, i + 1) - 1) : s[n] = NL}
    IN  IF starts = {} THEN s
        ELSE LET i == Min(starts)
                 last == Max({n \in (i + 1)..(SkipWs(s, i + 1) - 1) : s[n] = NL})
             IN  Slice(s, 1, i - 1) \o <<NL>> \o CollapseBlankLines(Slice(s, last + 1, Len(s)))

\* the clean-up without its first substitution: complete spans are left to
\* the later ones
CleanResponseKeepsComplete(text) ==
    Strip(CollapseBlankLines(RemoveTags(RemoveIncomplete(text))))

\* cleaned_response of process_response_with_tools
CleanResponse(text) ==
    Strip(CollapseBlankLines(RemoveTags(RemoveIncomplete(RemoveComplete(text)))))

(***************************************************************************)
(* ToolManager.process_response_with_tools                                 *)
(***************************************************************************)
\* the dict returned when a call was detected
ToolResponse(response, tool_call, ex) ==
    [type |-> "tool_response", content |-> CleanResponse(response), tool_used |-> TRUE,
     tool_call |-> tool_call, tool_result |-> ex.ret,
     invoked |-> ex.invoked, raised |-> ex.raised]

\* the dict returned when parse_tool_call returned None
NormalResponse(response) ==
    [type |-> "normal_response", content |-> response, tool_used |-> FALSE,
     tool_call |-> JNone, tool_result |-> JNone,
     invoked |-> <<>>, raised |-> FALSE]

Dispatch(registry, response, outcome, tool_call) ==
    IF tool_call = JNone
    THEN NormalResponse(response)
    ELSE ToolResponse(response, tool_call, execute_tool_call(registry, tool_call, outcome))

\* [type, content, tool_used, tool_call, tool_result] as returned, with what
\* the call did: invoked, the executors called, and raised, whether an
\* exception left it
process_response_with_tools(registry, response, outcome) ==
    Dispatch(registry, response, outcome, parse_tool_call(response))

(***************************************************************************)
(* ToolManager.format_tool_result_for_user, as a token sequence            *)
(***************************************************************************)
\* the emoji the phrases start with
CROSS == "(cross mark) "

ABACUS == "(abacus) "

CALENDAR == "(calendar) "

WRENCH == "(wrench) "

\* json.dumps(result, indent=2), kept opaque
RawDump(result) == <<"json.dumps">> \o result.s

\* the branch of google_calendar: every action with a rule of its own
\* returns a phrase; <<>> stands for falling out of the branch
FormatCalendar(result, action) ==
    IF action = JStr(<<"create_event">>) /\ Has(result, K("message"))
    THEN <<CALENDAR>> \o Get(result, K("message")).s
    ELSE IF action = JStr(<<"list_events">>)
    THEN IF GetOr(result, K("count"), JNum("0")) = JNum("0")
         THEN <<CALENDAR, "No events found for ">>
         ELSE <<CALENDAR, "You have ">> \o GetOr(result, K("count"), JNum("0")).s \o <<" events">>
    ELSE IF action = JStr(<<"find_free_time">>)
    THEN <<CALENDAR, "free slots">>
    ELSE IF action \in {JStr(<<"update_event">>), JStr(<<"delete_event">>)}
            /\ Has(result, K("message"))
    THEN <<CALENDAR>> \o Get(result, K("message")).s
    ELSE IF action = JStr(<<"get_event_details">>)
            /\ GetOr(result, K("event"), EmptyDict) # EmptyDict
    THEN <<CALENDAR, "Event: ">>
    ELSE IF action = JStr(<<"list_calendars">>)
    THEN <<CALENDAR, "You have ">> \o GetOr(result, K("count"), JNum("0")).s \o <<" calendars">>
    ELSE IF Has(result, K("message"))
    THEN <<CALENDAR>> \o Get(result, K("message")).s
    ELSE <<>>

\* the rule of the tool, <<>> when the tool has none or its rule finds none
\* of its fields
FormatRule(tool_name, result) ==
    IF tool_name = JStr(<<"calculator">>)
    THEN IF Has(result, K("calculation"))
         THEN <<ABACUS, "**">> \o Get(result, K("calculation")).s \o <<"**">>
         ELSE IF Has(result, K("formatted_result"))
         THEN <<ABACUS, "**Result: ">> \o Get(result, K("formatted_result")).s \o <<"**">>
         ELSE IF Has(result, K("result"))
         THEN <<ABACUS, "**Result: ">> \o Get(result, K("result")).s \o <<"**">>
         ELSE <<ABACUS, "**Calculation completed**">>
    ELSE IF tool_name = JStr(<<"weather_checker">>) /\ Has(result, K("summary"))
    THEN Get(result, K("summary")).s
    ELSE IF tool_name = JStr(<<"google_calendar">>)
    THEN FormatCalendar(result, GetOr(result, K("action"), JStr(<<>>)))
    ELSE <<>>

\* the text for a result that passed both error checks; the last return is
\* the fallback: tool_name, ": " and the dump of the result
FormatSucceeded(tool_name, result) ==
    IF FormatRule(tool_name, result) # <<>> THEN FormatRule(tool_name, result)
    ELSE <<WRENCH>> \o tool_name.s \o <<": ">> \o RawDump(result)

\* '"error" in tool_result.get("result", {})' and the subscript after it
\* raise TypeError for a result that is a number, a boolean or None, and for
\* a string that holds "error"
FormatRaises(tool_result) ==
    \/ GetOr(tool_result, K("result"), EmptyDict).k \in {"num", "bool", "none"}
    \/ /\ GetOr(tool_result, K("result"), EmptyDict).k = "str"
       /\ Contains(GetOr(tool_result, K("result"), EmptyDict).s, <<"error">>)

format_tool_result_for_user(tool_result) ==
    IF Has(GetOr(tool_result, K("result"), EmptyDict), K("error"))
    THEN <<CROSS>> \o Get(Get(tool_result, K("result")), K("error")).s
    ELSE IF GetOr(tool_result, K("success"), JFalse) # JTrue
    THEN <<CROSS, "Tool Error: ">> \o GetOr(tool_result, K("error"), JStr(<<"Unknown error">>)).s
    ELSE FormatSucceeded(GetOr(tool_result, K("tool_name"), JStr(<<"unknown">>)),
                         GetOr(tool_result, K("result"), EmptyDict))

(***************************************************************************)
(* Generated texts.  A hand-built call is a dict; it is written as text    *)
(* either compactly or in the layout that get_tools_prompt prescribes      *)
(* (one member per line, indented; the indentation is one space here).     *)
(***************************************************************************)
RECURSIVE Compact(_), CompactMembers(_, _), Pretty(_), PrettyMembers(_, _)

Compact(v) ==
    IF v.k = "obj" THEN <<LB>> \o CompactMembers(v.m, 1) \o <<RB>>
    ELSE IF v.k = "str" THEN <<Q>> \o v.s \o <<Q>>
    ELSE v.s

CompactMembers(m, i) ==
    IF i > Len(m) THEN <<>>
    ELSE (IF i > 1 THEN <<COMMA>> ELSE <<>>)
         \o <<Q>> \o m[i].key \o <<Q, COLON>> \o Compact(m[i].val)
         \o CompactMembers(m, i + 1)

Pretty(v) ==
    IF v.k = "obj"
    THEN IF Len(v.m) = 0 THEN <<LB, RB>>
         ELSE <<LB, NL>> \o PrettyMembers(v.m, 1) \o <<NL, RB>>
    ELSE IF v.k = "str" THEN <<Q>> \o v.s \o <<Q>>
    ELSE v.s

PrettyMembers(m, i) ==
    IF i > Len(m) THEN <<>>
    ELSE (IF i > 1 THEN <<COMMA, NL>> ELSE <<>>)
         \o <<SP, Q>> \o m[i].key \o <<Q, COLON, SP>> \o Pretty(m[i].val)
         \o PrettyMembers(m, i + 1)

\* {"tool_name": name, "parameters": {key: value}}
CallOf(name, params) ==
    JObj(<<Member(K("tool_name"), JStr(<<name>>)), Member(K("parameters"), params)>>)

Param(key, value) == JObj(<<Member(K(key), JStr(value))>>)

CallCalc == CallOf("calculator", Param("expression", <<"2+2">>))

CallWeather == CallOf("weather_checker", Param("location", <<"Paris">>))

CallUnknown == CallOf("nonexistent_tool", EmptyDict)

\* a call whose parameters do not fit Calculator.execute
CallMisfit == CallOf("calculator", Param("formula", <<"2+2">>))

\* a call whose string value holds the text of the closing marker
CallMarker == CallOf("calculator", Param("expression", <<"2+2", CLOSE>>))

\* a value whose tool_name is an object
CallObjName ==
    JObj(<<Member(K("tool_name"), EmptyDict), Member(K("parameters"), EmptyDict)>>)

\* the calls to registered tools written by hand in the prescribed syntax
HandBuiltCalls == {CallCalc, CallWeather, CallMarker}

Wrap(form, p) ==
    CASE form = "bare" -> p
      [] form = "open" -> <<OPEN>> \o p
      [] form = "closed" -> <<OPEN>> \o p \o <<CLOSE>>
      [] OTHER -> p \o <<CLOSE>>

\* the pieces of a generated text: a call, bare or after an opening marker
\* or between the markers or before a closing marker; a value that is no
\* call; prose, also with a blank line in it; the markers alone
Items ==
    {Wrap(f, p) : f \in {"bare", "open", "closed", "tail"},
                  p \in {Compact(CallCalc), Compact(CallUnknown)}}
    \cup {Wrap(f, <<LB, "oops", RB>>) : f \in {"open", "closed"}}
    \cup {Wrap(f, <<"hi">>) : f \in {"bare", "open", "closed"}}
    \cup {Wrap(f, <<>>) : f \in {"open", "closed", "tail"}}
    \cup {<<"hi", NL, SP, NL, "there", SP>>}
    \cup {Wrap("closed", Pretty(c)) : c \in HandBuiltCalls}
    \cup {Wrap("closed", Compact(CallMisfit)),
          Wrap("closed", Compact(CallObjName)),
          Wrap("closed", Compact(Param("expression", <<"2+2">>))),
          Wrap("closed", Compact(Param("location", <<"Paris">>))),
          Wrap("open", Pretty(CallCalc))}

Separators == {<<SP, "and", SP>>, <<NL>>}

MaxItems == 2

RECURSIVE TextsOf(_)

\* the texts of at most n items, joined by separators
TextsOf(n) ==
    IF n = 0 THEN {<<>>}
    ELSE LET shorter == TextsOf(n - 1)
         IN  shorter \cup Items
             \cup {a \o s \o b : a \in shorter \ {<<>>}, s \in Separators, b \in Items \ {<<>>}}

Texts == TextsOf(MaxItems)

(***************************************************************************)
(* Specification of the codec and dispatcher on one generated text         *)
(***************************************************************************)
NotProcessed == [type |-> "none", content |-> <<>>, tool_used |-> FALSE,
                 tool_call |-> JNone, tool_result |-> JNone,
                 invoked |-> <<>>, raised |-> FALSE]

CodecInit ==
    /\ max_turns = 0
    /\ turns = <<>>
    /\ added = <<>>
    /\ llm_response \in Texts
    /\ processed = NotProcessed
    /\ tools = BaseTools
    /\ last_transcript = <<>>
    /\ last_response = <<>>
    /\ kb = {}
    /\ events = <<>>
    /\ crashed = FALSE
    /\ utterances = 0
    /\ last_op = "init"
    /\ AudioConstructed
    /\ GatesConstructed
    /\ TasksConstructed

ProcessResponse(outcome) ==
    /\ last_op = "init"
    /\ processed' = process_response_with_tools(tools, llm_response, outcome)
    /\ last_op' = "process_response_with_tools"
    /\ UNCHANGED <<max_turns, turns, added, llm_response, tools,
                   last_transcript, last_response, kb, events, crashed, utterances>>
    /\ UNCHANGED audio_vars
    /\ UNCHANGED gate_vars
    /\ UNCHANGED task_vars

CodecNext == \E outcome \in ExecOutcomes : ProcessResponse(outcome)

SpecCodec == CodecInit /\ [][CodecNext]_vars

(***************************************************************************)
(* Specification of the dispatcher and the formatter on one decoded call:  *)
(* what _process_speech does with the tool_call of a tool response         *)
(***************************************************************************)
CallCalendar(action) == CallOf("google_calendar", Param("action", <<action>>))

CallSearch == CallOf("web_searcher", Param("query", <<"tla">>))

\* a call written with further members: parse_tool_call returns every
\* well-formed object that has "tool_name" and "parameters" as it is
WithError(call) == JObj(call.m \o <<Member(K("error"), JStr(<<"x">>))>>)

WithResult(call, result) == JObj(call.m \o <<Member(K("result"), result)>>)

\* the values parse_tool_call returns for a text with a call
DecodedCalls ==
    {PARSE_ERROR, CallCalc, CallWeather, CallUnknown, CallMisfit, CallObjName, CallSearch,
     WithError(CallCalc), WithResult(WithError(CallCalc), JNum("4"))}
    \cup {CallCalendar(a) : a \in {"create_event", "list_events", "list_calendars", "remind"}}

\* self.tools: as __init__ leaves it (without and with google_calendar), and
\* with WebSearcher added to the dict under its name
Registries == {BaseTools, AllTools, AllTools \cup {"web_searcher"}}

FormatInit ==
    /\ max_turns = 0
    /\ turns = <<>>
    /\ added = <<>>
    /\ llm_response = <<>>
    /\ \E tool_call \in DecodedCalls :
           processed = [NotProcessed EXCEPT !.type = "tool_response", !.tool_used = TRUE,
                                            !.tool_call = tool_call]
    /\ tools \in Registries
    /\ last_transcript = <<>>
    /\ last_response = <<>>
    /\ kb = {}
    /\ events = <<>>
    /\ crashed = FALSE
    /\ utterances = 0
    /\ last_op = "parse_tool_call"
    /\ AudioConstructed
    /\ GatesConstructed
    /\ TasksConstructed

\* processed with what execute_tool_call returned
Dispatched(p, ex) ==
    [p EXCEPT !.tool_result = ex.ret, !.invoked = ex.invoked, !.raised = ex.raised]

\* tool_result = self.execute_tool_call(tool_call)
ExecuteToolCall(outcome) ==
    /\ last_op = "parse_tool_call"
    /\ processed' = Dispatched(processed, execute_tool_call(tools, processed.tool_call, outcome))
    /\ last_op' = "execute_tool_call"
    /\ UNCHANGED <<max_turns, turns, added, llm_response, tools,
                   last_transcript, last_response, kb, events, crashed, utterances>>
    /\ UNCHANGED audio_vars
    /\ UNCHANGED gate_vars
    /\ UNCHANGED task_vars

\* tool_result_text = self.tool_manager.format_tool_result_for_user(...),
\* reached when execute_tool_call returned; an exception of the formatter
\* leaves _process_speech
FormatToolResult ==
    /\ last_op = "execute_tool_call"
    /\ ~processed.raised
    /\ IF FormatRaises(processed.tool_result)
       THEN crashed' = TRUE /\ last_response' = last_response
       ELSE /\ crashed' = crashed
            /\ last_response' = format_tool_result_for_user(processed.tool_result)
    /\ last_op' = "format_tool_result_for_user"
    /\ UNCHANGED <<max_turns, turns, added, llm_response, processed, tools,
                   last_transcript, kb, events, utterances>>
    /\ UNCHANGED audio_vars
    /\ UNCHANGED gate_vars
    /\ UNCHANGED task_vars

FormatNext == (\E outcome \in ExecOutcomes : ExecuteToolCall(outcome)) \/ FormatToolResult

SpecFormat == FormatInit /\ [][FormatNext]_vars

(***************************************************************************)
(* ConversationMemory                                                      *)
(***************************************************************************)
Turn(user_message, assistant_response) ==
    [user |-> user_message, assistant |-> assistant_response]

\* add_turn with pop() for pop(0): on overflow the newest turn goes
add_turn_pops_newest(capacity, stored, user_message, assistant_response) ==
    IF capacity > 0
    THEN LET appended == Append(stored, Turn(user_message, assistant_response))
         IN  IF Len(appended) > capacity THEN SubSeq(appended, 1, capacity) ELSE appended
    ELSE stored

\* self.turns after add_turn(user_message, assistant_response)
add_turn(capacity, stored, user_message, assistant_response) ==
    IF capacity > 0
    THEN LET appended == Append(stored, Turn(user_message, assistant_response))
         IN  IF Len(appended) > capacity THEN Tail(appended) ELSE appended
    ELSE stored

\* self.turns after clear()
clear == <<>>

\* the largest max_turns a configuration of the model sets
MaxCapacity == 3

\* the number of add_turn calls the memory specification follows after a clear
MaxAdded == 5

\* the turns of the memory specification: the messages do not matter to it
MemTurns == {Turn(<<u>>, <<a>>) : u \in {"u1", "u2"}, a \in {"a1"}}

MemInit ==
    /\ max_turns \in 0..MaxCapacity
    /\ turns = <<>>
    /\ added = <<>>
    /\ llm_response = <<>>
    /\ processed = NotProcessed
    /\ tools = BaseTools
    /\ last_transcript = <<>>
    /\ last_response = <<>>
    /\ kb = {}
    /\ events = <<>>
    /\ crashed = FALSE
    /\ utterances = 0
    /\ last_op = "init"
    /\ AudioConstructed
    /\ GatesConstructed
    /\ TasksConstructed

AddTurn(t) ==
    /\ Len(added) < MaxAdded
    /\ turns' = add_turn(max_turns, turns, t.user, t.assistant)
    /\ added' = Append(added, t)
    /\ last_op' = "add_turn"
    /\ UNCHANGED <<max_turns, llm_response, processed, tools,
                   last_transcript, last_response, kb, events, crashed, utterances>>
    /\ UNCHANGED audio_vars
    /\ UNCHANGED gate_vars
    /\ UNCHANGED task_vars

Clear ==
    /\ turns' = clear
    /\ added' = <<>>
    /\ last_op' = "clear"
    /\ UNCHANGED <<max_turns, llm_response, processed, tools,
                   last_transcript, last_response, kb, events, crashed, utterances>>
    /\ UNCHANGED audio_vars
    /\ UNCHANGED gate_vars
    /\ UNCHANGED task_vars

MemNext == (\E t \in MemTurns : AddTurn(t)) \/ Clear

SpecMem == MemInit /\ [][MemNext]_vars

(***************************************************************************)
(* VoiceAssistant._process_speech: the turn run on one utterance.          *)
(* The collaborators' answers are the inputs of the turn: the              *)
(* transcription, the two classifiers' verdicts, the generated text and    *)
(* what the tool executor returns.                                         *)
(***************************************************************************)
RESET_CONFIRMATION == <<"Conversation memory has been reset.">>

ACKNOWLEDGMENT == <<"I heard you, but I'm not sure what action to take.">>

REFUSAL == "I'm sorry, but I can't provide information"

\* str.lower() on the tokens of the model
LowerToken(tok) == IF tok = "Reset Memory" THEN "reset memory" ELSE tok

Lower(s) == [i \in 1..Len(s) |-> LowerToken(s[i])]

\* the reset test without lower(): only the exact phrase counts
IsResetCommandExact(transcript) == Strip(transcript) = <<"reset memory">>

\* self.last_transcript.strip().lower() == "reset memory"
IsResetCommand(transcript) == Lower(Strip(transcript)) = <<"reset memory">>

\* the repetitive-refusal test on the two most recent turns
RepetitiveRefusals(stored) ==
    /\ Len(stored) >= 2
    /\ \A i \in (Len(stored) - 1)..Len(stored) : Contains(stored[i].assistant, <<REFUSAL>>)

\* a turn that never clears the memory by itself
TurnsNeverReset(stored) == stored

\* self.conversation_memory.turns when the classifiers run
TurnsAfterAutoReset(stored) == IF RepetitiveRefusals(stored) THEN clear ELSE stored

\* self.last_response after the tool branch of the turn
ResponseText(p) ==
    IF p.tool_used
    THEN IF p.content # <<>>
         THEN p.content \o <<NL, NL>> \o format_tool_result_for_user(p.tool_result)
         ELSE format_tool_result_for_user(p.tool_result)
    ELSE p.content

SpeakEvents(text) == IF text # <<>> THEN <<"tts.speak_async">> ELSE <<>>

PersistEvents(contextable) == IF contextable THEN <<"add_to_knowledge_base">> ELSE <<>>

ClearEvents(stored) == IF RepetitiveRefusals(stored) THEN <<"memory.clear">> ELSE <<>>

ExecuteEvents(p) == [i \in 1..Len(p.invoked) |-> "tool.execute"]

(***************************************************************************)
(* The gating classifiers (gating_classifiers/*.py)                        *)
(***************************************************************************)
\* threshold=0.5 of is_actionable and is_contextable, in percent
THRESHOLD == 50

\* what one call of a classifier meets: the model was not loaded, the
\* classification raises, or the model answers with a label and the
\* confidence of that label (in percent)
Answer(label, confidence) == [k |-> "answer", prediction |-> label, confidence |-> confidence]

ClassifierRuns ==
    { [k |-> "unloaded"], [k |-> "error"], Answer(0, 90), Answer(1, 40), Answer(1, 90) }

\* the result dict of a classifier: the label shown, the confidence, the verdict
Classified(label, confidence, verdict) ==
    [prediction |-> label, confidence |-> confidence, verdict |-> verdict]

\* a classifier whose fallback label is the positive one
classify_optimistic(run) ==
    IF run.k # "answer"
    THEN Classified("positive", 0, TRUE)
    ELSE Classified(IF run.prediction = 1 THEN "positive" ELSE "negative", run.confidence,
                    run.prediction = 1 /\ run.confidence >= THRESHOLD)

\* is_actionable / is_contextable: the two classes differ in their names only
classify(run) ==
    IF run.k # "answer"
    THEN Classified("negative", 0, FALSE)
    ELSE Classified(IF run.prediction = 1 THEN "positive" ELSE "negative", run.confidence,
                    run.prediction = 1 /\ run.confidence >= THRESHOLD)

(***************************************************************************)
(* The turn behind the gates                                               *)
(***************************************************************************)
\* conv_memory_config.get("include_in_prompt", True)
include_history_in_prompt == TRUE

\* retrieve_context(query, k=5): the texts of the store nearest to the
\* query, all of them while the store holds no more than k
retrieve_context(store) == store

\* get_history_string: a User line and an Assistant line for every turn
HistoryLine(role, text) == [role |-> role, text |-> text]

get_history_string(stored) ==
    [i \in 1..(2 * Len(stored)) |->
        IF i % 2 = 1 THEN HistoryLine("User", stored[(i + 1) \div 2].user)
                     ELSE HistoryLine("Assistant", stored[i \div 2].assistant)]

\* the request composed after this turn's own text was persisted
ComposeAfterPersist(stored, store, transcript) ==
    [contexts |-> retrieve_context(store \cup {transcript}),
     history  |-> IF include_history_in_prompt THEN get_history_string(stored) ELSE <<>>,
     question |-> transcript]

\* user_input: the context block, the history block and the question
ComposeRequest(stored, store, transcript) ==
    [contexts |-> retrieve_context(store),
     history  |-> IF include_history_in_prompt THEN get_history_string(stored) ELSE <<>>,
     question |-> transcript]

\* what a turn leaves in the fields the branches of the turn write
Effect(response, stored, store, calls, raised) ==
    [last_response |-> response, turns |-> stored, kb |-> store,
     events |-> calls, crashed |-> raised]

\* the turn leaves `effect`; `other` is what the opposite contextable
\* verdict would have left
Takes(effect, other) ==
    /\ last_response' = effect.last_response
    /\ turns' = effect.turns
    /\ kb' = effect.kb
    /\ events' = effect.events
    /\ crashed' = effect.crashed
    /\ twin' = other

\* the retrieval store after the persistence step
Persisted(store, transcript, contextable) ==
    IF contextable THEN store \cup {transcript} ELSE store

\* the calls of a turn up to and including the two gates
GateEvents(stored) ==
    <<"stt.transcribe">> \o ClearEvents(stored) \o <<"is_actionable", "is_contextable">>

\* the calls of the actionable branch up to and including the generation
GenerationEvents(stored) ==
    GateEvents(stored) \o <<"retrieve_context", "get_tools_prompt", "llm.generate">>

\* a blank transcription handled like an utterance the gate rejects
BlankTurnAcknowledged(transcript) ==
    /\ Strip(transcript) = <<>>
    /\ last_transcript' = transcript
    /\ last_response' = ACKNOWLEDGMENT
    /\ turns' = add_turn(max_turns, turns, transcript, ACKNOWLEDGMENT)
    /\ events' = <<"stt.transcribe", "is_actionable", "is_contextable", "add_turn",
                   "tts.speak_async">>
    /\ last_op' = "blank"
    /\ UNCHANGED <<max_turns, added, llm_response, processed, tools, kb, crashed>>
    /\ UNCHANGED gate_vars

\* the turn of a blank transcription: nothing but the state reset
BlankTurn(transcript) ==
    /\ Strip(transcript) = <<>>
    /\ last_transcript' = transcript
    /\ events' = <<"stt.transcribe">>
    /\ last_op' = "blank"
    /\ UNCHANGED <<max_turns, turns, added, llm_response, processed, tools,
                   last_response, kb, crashed>>
    /\ UNCHANGED gate_vars

\* the turn of the reset command
ResetTurn(transcript) ==
    /\ Strip(transcript) # <<>>
    /\ IsResetCommand(transcript)
    /\ last_transcript' = transcript
    /\ turns' = clear
    /\ last_response' = RESET_CONFIRMATION
    /\ events' = <<"stt.transcribe", "memory.clear", "tts.speak_async">>
    /\ last_op' = "reset"
    /\ UNCHANGED <<max_turns, added, llm_response, processed, tools, kb, crashed>>
    /\ UNCHANGED gate_vars

\* the rejected utterance acknowledged but not recorded
NonActionableEffectUnrecorded(capacity, stored, store, transcript, contextable) ==
    Effect(ACKNOWLEDGMENT,
           TurnsAfterAutoReset(stored),
           Persisted(store, transcript, contextable),
           GateEvents(stored) \o PersistEvents(contextable) \o SpeakEvents(ACKNOWLEDGMENT),
           FALSE)

\* the rejected utterance answered by what the contextable gate said
NonActionableEffectNoted(capacity, stored, store, transcript, contextable) ==
    Effect(IF contextable THEN <<"Noted.">> ELSE ACKNOWLEDGMENT,
           add_turn(capacity, TurnsAfterAutoReset(stored), transcript,
                    IF contextable THEN <<"Noted.">> ELSE ACKNOWLEDGMENT),
           Persisted(store, transcript, contextable),
           GateEvents(stored) \o <<"add_turn">> \o PersistEvents(contextable)
                \o SpeakEvents(ACKNOWLEDGMENT),
           FALSE)

\* the else branch of the actionable gate, persistence and speech
NonActionableEffect(capacity, stored, store, transcript, contextable) ==
    Effect(ACKNOWLEDGMENT,
           add_turn(capacity, TurnsAfterAutoReset(stored), transcript, ACKNOWLEDGMENT),
           Persisted(store, transcript, contextable),
           GateEvents(stored) \o <<"add_turn">> \o PersistEvents(contextable)
                \o SpeakEvents(ACKNOWLEDGMENT),
           FALSE)

\* the turn of an utterance the actionable classifier rejects
NonActionableTurn(transcript, actionable_result, contextable_result) ==
    /\ Strip(transcript) # <<>>
    /\ ~IsResetCommand(transcript)
    /\ ~actionable_result.verdict
    /\ last_transcript' = transcript
    /\ last_actionable' = actionable_result
    /\ last_contextable' = contextable_result
    /\ Takes(NonActionableEffect(max_turns, turns, kb, transcript,
                                 contextable_result.verdict),
             NonActionableEffect(max_turns, turns, kb, transcript,
                                 ~contextable_result.verdict))
    /\ last_op' = "non_actionable"
    /\ UNCHANGED <<max_turns, added, llm_response, processed, tools, user_input>>

\* the rest of the actionable branch after process_response_with_tools
\* returned p (or raised): memory update, persistence, speech; an exception
\* that leaves process_response_with_tools leaves the turn and the main loop
ActionableEffect(capacity, stored, store, said, transcript, contextable, p) ==
    IF p.raised
    THEN Effect(said, TurnsAfterAutoReset(stored), store,
                GenerationEvents(stored) \o ExecuteEvents(p), TRUE)
    ELSE Effect(ResponseText(p),
                add_turn(capacity, TurnsAfterAutoReset(stored), transcript, ResponseText(p)),
                Persisted(store, transcript, contextable),
                GenerationEvents(stored) \o ExecuteEvents(p) \o <<"add_turn">>
                     \o PersistEvents(contextable) \o SpeakEvents(ResponseText(p)),
                FALSE)

FinishTurn(transcript, contextable, p) ==
    /\ processed' = p
    /\ Takes(ActionableEffect(max_turns, turns, kb, last_response, transcript,
                              contextable, p),
             ActionableEffect(max_turns, turns, kb, last_response, transcript,
                              ~contextable, p))

\* the turn of an actionable utterance: the gates, retrieval, generation,
\* tool dispatch, then the rest of the turn
ActionableTurn(transcript, actionable_result, contextable_result, response, outcome) ==
    /\ Strip(transcript) # <<>>
    /\ ~IsResetCommand(transcript)
    /\ actionable_result.verdict
    /\ last_transcript' = transcript
    /\ last_actionable' = actionable_result
    /\ last_contextable' = contextable_result
    /\ user_input' = ComposeRequest(TurnsAfterAutoReset(turns), kb, transcript)
    /\ llm_response' = response
    /\ last_op' = "actionable"
    /\ FinishTurn(transcript, contextable_result.verdict,
                  process_response_with_tools(tools, response, outcome))
    /\ UNCHANGED <<max_turns, added, tools>>

\* the collaborators of the actionable branch whose call may raise
Faults == {"retrieve_context", "llm.generate"}

\* the calls of a turn up to and including the one that raises
EventsUpTo(stored, fault) ==
    IF fault = "retrieve_context"
    THEN GateEvents(stored) \o <<"retrieve_context">>
    ELSE GenerationEvents(stored)

\* _process_speech has no handler around retrieve_context and llm.generate:
\* the exception leaves the turn and, run catching KeyboardInterrupt only,
\* the main loop
FaultEffect(capacity, stored, store, said, transcript, fault) ==
    Effect(said, TurnsAfterAutoReset(stored), store, EventsUpTo(stored, fault), TRUE)

\* the turn of an actionable utterance in which retrieval or generation raises
FaultTurn(transcript, actionable_result, contextable_result, fault) ==
    /\ Strip(transcript) # <<>>
    /\ ~IsResetCommand(transcript)
    /\ actionable_result.verdict
    /\ last_transcript' = transcript
    /\ last_actionable' = actionable_result
    /\ last_contextable' = contextable_result
    /\ user_input' = IF fault = "llm.generate"
                     THEN ComposeRequest(TurnsAfterAutoReset(turns), kb, transcript)
                     ELSE user_input
    /\ Takes(FaultEffect(max_turns, turns, kb, last_response, transcript, fault),
             FaultEffect(max_turns, turns, kb, last_response, transcript, fault))
    /\ last_op' = "fault"
    /\ UNCHANGED <<max_turns, added, llm_response, processed, tools>>

\* the transcriptions of the model
Transcripts == { <<SP>>, <<SP, "Reset Memory", NL>>, <<"what is 2+2">> }

\* the generated texts of the turns: prose, a refusal, one call of each fate,
\* a call after prose, a call in the layout of the prompt, two calls
TurnTexts ==
    { <<"hi">>,
      <<REFUSAL>>,
      Wrap("closed", Compact(CallCalc)),
      Wrap("closed", Compact(CallUnknown)),
      Wrap("closed", <<LB, "oops", RB>>),
      Wrap("closed", Compact(CallMisfit)),
      Wrap("closed", Compact(CallObjName)),
      <<"hi", NL>> \o Wrap("closed", Compact(CallUnknown)),
      Wrap("closed", Pretty(CallWeather)),
      Wrap("closed", Compact(CallCalc)) \o <<SP, "and", SP>> \o Wrap("closed", Compact(CallWeather)) }

\* what the contextable classifier meets in the turns of the model
ContextableRuns == { [k |-> "error"], Answer(1, 90) }

\* the number of utterances the specification of the turns follows
MaxUtterances == 3

\* the configured capacities of the turns' memory: none, one turn, many
TurnCapacities == {0, 1, MaxCapacity}

Init ==
    /\ max_turns \in TurnCapacities
    /\ turns = <<>>
    /\ added = <<>>
    /\ llm_response = <<>>
    /\ processed = NotProcessed
    /\ tools = BaseTools
    /\ last_transcript = <<>>
    /\ last_response = <<>>
    /\ kb = {}
    /\ events = <<>>
    /\ crashed = FALSE
    /\ utterances = 0
    /\ last_op = "init"
    /\ AudioConstructed
    /\ GatesConstructed
    /\ TasksConstructed

\* one call of _process_speech, whatever the transcription, what the two
\* classifiers meet, the generated text, the fate of the executor and the
\* collaborator that raises
SpeechTurn(transcripts, actionable_runs, contextable_runs, texts, outcomes) ==
    /\ utterances' = utterances + 1
    /\ \E transcript \in transcripts :
          \/ BlankTurn(transcript)
          \/ ResetTurn(transcript)
          \/ \E a \in actionable_runs, c \in contextable_runs :
                \/ NonActionableTurn(transcript, classify(a), classify(c))
                \/ \E response \in texts, outcome \in outcomes :
                      ActionableTurn(transcript, classify(a), classify(c), response, outcome)
                \/ \E fault \in Faults :
                      FaultTurn(transcript, classify(a), classify(c), fault)

ProcessSpeech ==
    /\ ~crashed
    /\ utterances < MaxUtterances
    /\ SpeechTurn(Transcripts, ClassifierRuns, ContextableRuns, TurnTexts, ExecOutcomes)
    /\ UNCHANGED audio_vars
    /\ UNCHANGED task_vars

Next == ProcessSpeech

Spec == Init /\ [][Next]_vars

(***************************************************************************)
(* Capture, queue and segmentation (main.py: _audio_callback,              *)
(* _process_audio_chunk, run)                                              *)
(*                                                                         *)
(* Time is counted in quarters of a second.  The stream calls the callback *)
(* with one block of block_duration seconds of audio each time a block is  *)
(* complete; the consumer thread reads time.time() when it examines a      *)
(* frame.  Examining a frame takes less than a block; only a call of       *)
(* _process_speech takes longer, and frames pile up in the queue meanwhile.*)
(***************************************************************************)
\* DEFAULT_BLOCK_DURATION = 0.5 (seconds), in quarters of a second
BLOCK_DURATION == 2

\* the 1.0 (second) of `time.time() - self.last_speech_time > 1.0`
HANGOVER == 4

\* queue.Queue(): maxsize = 0, no upper limit on the number of items
maxsize == 0

\* the span of time the specification of the audio follows
MaxTime == 16

\* a frame: block number k, complete at time k * BLOCK_DURATION, and what
\* vad.detect_speech returns for it (a non-empty list or an empty one)
Frame(k, speech) == [block |-> k, speech |-> speech]

\* Queue.put on a single-ended queue that drops the item when an item waits
put_drop(queue, item) == IF Len(queue) >= 1 THEN queue ELSE Append(queue, item)

\* Queue._put: the item joins the right end of the deque
put(queue, item) == Append(queue, item)

\* Queue.put blocks while the queue is full: 0 < maxsize <= qsize
full_at(queue, size) == size > 0 /\ Len(queue) >= size

\* a queue built with maxsize 1
fullOfOne(queue) == full_at(queue, 1)

full(queue) == full_at(queue, maxsize)

\* _process_speech run on a thread of its own: the loop goes on meanwhile
ConsumerFreeAlways(calls) == TRUE

\* the loop of run gets the next frame only when _process_audio_chunk, and
\* the _process_speech it calls, has returned
ConsumerFree(calls) == calls = 0

\* the end of speech never decided
SpeechEndedNever(active, elapsed) == FALSE

\* the end of speech decided at the first frame without activity
SpeechEndedAtOnce(active, elapsed) == active

\* the end of speech decided after half the threshold
SpeechEndedAfterHalf(active, elapsed) == active /\ elapsed * 2 > HANGOVER

\* the end of speech decided without looking at the state
SpeechEndedWhenIdle(active, elapsed) == elapsed > HANGOVER

\* the end of speech decided at the threshold already
SpeechEndedAtThreshold(active, elapsed) == active /\ elapsed >= HANGOVER

\* self.speech_active and time.time() - self.last_speech_time > 1.0
SpeechEnded(active, elapsed) == active /\ elapsed > HANGOVER

\* the block of the newest frame of a buffer (0 for an empty buffer)
NewestBlock(buffer) == IF buffer = <<>> THEN 0 ELSE buffer[Len(buffer)].block

\* the utterance handed to _process_speech: the buffer, the frame and the
\* time at which it was handed over
Utterance(buffer, frame, time) == [audio |-> buffer, ended_by |-> frame, at |-> time]

\* a quarter of a second passes.  The block that is complete has been
\* delivered; a consumer that is free has examined the frames that wait
\* before the next block is complete.
Tick ==
    /\ now < MaxTime
    /\ Len(captured) * BLOCK_DURATION + BLOCK_DURATION > now
    /\ \/ crashed
       \/ ~ConsumerFree(in_flight)
       \/ audio_queue = <<>>
       \/ (now + 1) % BLOCK_DURATION # 0
    /\ now' = now + 1
    /\ UNCHANGED <<max_turns, turns, added, llm_response, processed, tools,
                   last_transcript, last_response, kb, events, crashed, utterances, last_op,
                   audio_queue, buffered_audio, speech_active, last_speech_time,
                   in_flight, captured, consumed, emitted>>
    /\ UNCHANGED gate_vars
    /\ UNCHANGED task_vars

\* _audio_callback on the stream's thread: the block that is complete is put
\* into the queue
AudioCallback(speech) ==
    /\ Len(captured) * BLOCK_DURATION + BLOCK_DURATION <= now
    /\ ~full(audio_queue)
    /\ audio_queue' = put(audio_queue, Frame(Len(captured) + 1, speech))
    /\ captured' = Append(captured, Frame(Len(captured) + 1, speech))
    /\ UNCHANGED <<max_turns, turns, added, llm_response, processed, tools,
                   last_transcript, last_response, kb, events, crashed, utterances, last_op,
                   buffered_audio, speech_active, last_speech_time, now,
                   in_flight, consumed, emitted>>
    /\ UNCHANGED gate_vars
    /\ UNCHANGED task_vars

\* the buffer that keeps the newest frame only
append_newest_only(buffer, audio_np) == <<audio_np>>

\* self.buffered_audio.append(audio_np)
append(buffer, audio_np) == Append(buffer, audio_np)

\* the if / elif of _process_audio_chunk for the frame got
ExamineFrame(audio_chunk) ==
    IF audio_chunk.speech
    THEN /\ buffered_audio' = append(buffered_audio, audio_chunk)
         /\ speech_active' = TRUE
         /\ last_speech_time' = now
         /\ UNCHANGED <<in_flight, emitted>>
    ELSE IF SpeechEnded(speech_active, now - last_speech_time)
    THEN /\ in_flight' = in_flight + 1
         /\ emitted' = Append(emitted, Utterance(buffered_audio, audio_chunk, now))
         /\ UNCHANGED <<buffered_audio, speech_active, last_speech_time>>
    ELSE UNCHANGED <<buffered_audio, speech_active, last_speech_time, in_flight, emitted>>

\* one round of the loop of run up to the call of _process_speech:
\* audio_queue.get() and _process_audio_chunk
ProcessAudioChunk ==
    /\ ~crashed
    /\ ConsumerFree(in_flight)
    /\ audio_queue # <<>>
    /\ audio_queue' = Tail(audio_queue)
    /\ consumed' = Append(consumed, Head(audio_queue))
    /\ ExamineFrame(Head(audio_queue))
    /\ UNCHANGED <<max_turns, turns, added, llm_response, processed, tools,
                   last_transcript, last_response, kb, events, crashed, utterances, last_op,
                   now, captured>>
    /\ UNCHANGED gate_vars
    /\ UNCHANGED task_vars

\* the generated texts of the turns of the audio specification: prose, and
\* the call whose dispatch raises
AudioTexts == { <<"hi">>, Wrap("closed", Compact(CallObjName)) }

\* what the classifiers meet in the turns of the audio specification
AudioRuns == { [k |-> "unloaded"], Answer(1, 90) }

\* the end of _process_speech without "self.buffered_audio = []"
BufferKept(buffer, raised) == buffer

\* "Reset state" at the end of _process_speech (and of its reset branch):
\* self.buffered_audio = [], not reached when an exception left the method
BufferAfterTurn(buffer, raised) == IF raised THEN buffer ELSE <<>>

\* the _process_speech that _process_audio_chunk called returns, or an
\* exception leaves it (and run) before the buffer and the flag are reset
ProcessSpeechReturns ==
    /\ ~crashed
    /\ in_flight > 0
    /\ SpeechTurn(Transcripts, AudioRuns, AudioRuns, AudioTexts, {"ok"})
    /\ in_flight' = in_flight - 1
    /\ buffered_audio' = BufferAfterTurn(buffered_audio, crashed')
    /\ speech_active' = (crashed' /\ speech_active)
    /\ UNCHANGED <<audio_queue, last_speech_time, now, captured, consumed, emitted>>
    /\ UNCHANGED task_vars

AudioInit ==
    /\ max_turns = 1
    /\ turns = <<>>
    /\ added = <<>>
    /\ llm_response = <<>>
    /\ processed = NotProcessed
    /\ tools = BaseTools
    /\ last_transcript = <<>>
    /\ last_response = <<>>
    /\ kb = {}
    /\ events = <<>>
    /\ crashed = FALSE
    /\ utterances = 0
    /\ last_op = "init"
    /\ AudioConstructed
    /\ GatesConstructed
    /\ TasksConstructed

AudioNext ==
    \/ Tick
    \/ \E speech \in BOOLEAN : AudioCallback(speech)
    \/ ProcessAudioChunk
    \/ ProcessSpeechReturns

SpecAudio == AudioInit /\ [][AudioNext]_vars

\* the same machine with its scheduling: time advances, the stream goes on
\* calling the callback, the loop of run goes on getting frames, and a
\* _process_speech that was called ends
SpecAudioLive ==
    /\ AudioInit
    /\ [][AudioNext]_vars
    /\ WF_vars(Tick)
    /\ WF_vars(\E speech \in BOOLEAN : AudioCallback(speech))
    /\ WF_vars(ProcessAudioChunk)
    /\ WF_vars(ProcessSpeechReturns)

(***************************************************************************)
(* TaskExecutor (src/executor/task_executor.py)                            *)
(*                                                                         *)
(* registered_tasks is a function from intent names to handlers; a handler *)
(* is known by its name and returns a result that tells which handler made *)
(* it and from which arguments.                                            *)
(***************************************************************************)
IntentNames == {"intent1", "intent2", "unknown"}

Handlers == {"handler1", "handler2"}

\* intent data with and without the "intent" field
IntentData ==
    {[entities |-> "e"]} \cup {[intent |-> n, entities |-> "e"] : n \in IntentNames}

\* the contexts passed: the default None and a context
Contexts == {None, [k |-> "context"]}

\* the number of register_task calls the specification of the tasks follows
MaxRegistrations == 3

\* handler_func(intent_data, context)
HandlerResult(handler, intent_data, context) ==
    [success |-> TRUE, by |-> handler, intent_data |-> intent_data, context |-> context]

\* a registration that keeps the handler a name already has (dict.setdefault)
register_task_keeps_first(registry, intent_name, handler_func) ==
    IF intent_name \in DOMAIN registry
    THEN registry
    ELSE [n \in DOMAIN registry \cup {intent_name} |->
             IF n = intent_name THEN handler_func ELSE registry[n]]

\* self.registered_tasks[intent_name] = handler_func
register_task(registry, intent_name, handler_func) ==
    [n \in DOMAIN registry \cup {intent_name} |->
        IF n = intent_name THEN handler_func ELSE registry[n]]

\* intent_data.get("intent", "unknown")
IntentNameOf(intent_data) ==
    IF "intent" \in DOMAIN intent_data THEN intent_data.intent ELSE "unknown"

NoHandlerResult(intent_name) ==
    [success |-> FALSE,
     message |-> <<"No handler registered for intent: ", intent_name>>,
     response |-> "I'm not sure how to handle that request."]

\* what execute_task returns and the handler calls it makes
Executed(ret, invoked) == [ret |-> ret, invoked |-> invoked]

HandlerCall(handler, intent_data, context) ==
    [handler |-> handler, intent_data |-> intent_data, context |-> context]

\* an execute_task that falls back on any handler when the name has none
execute_task_falls_back(registry, intent_data, context) ==
    IF IntentNameOf(intent_data) \in DOMAIN registry
    THEN Executed(HandlerResult(registry[IntentNameOf(intent_data)], intent_data, context),
                  <<HandlerCall(registry[IntentNameOf(intent_data)], intent_data, context)>>)
    ELSE IF DOMAIN registry # {}
    THEN LET n == CHOOSE m \in DOMAIN registry : TRUE
         IN  Executed(HandlerResult(registry[n], intent_data, context),
                      <<HandlerCall(registry[n], intent_data, context)>>)
    ELSE Executed(NoHandlerResult(IntentNameOf(intent_data)), <<>>)

execute_task(registry, intent_data, context) ==
    IF IntentNameOf(intent_data) \in DOMAIN registry
    THEN Executed(HandlerResult(registry[IntentNameOf(intent_data)], intent_data, context),
                  <<HandlerCall(registry[IntentNameOf(intent_data)], intent_data, context)>>)
    ELSE Executed(NoHandlerResult(IntentNameOf(intent_data)), <<>>)

\* the arguments and the result of an execute_task
TaskIo(intent_data, context, ret) ==
    [k |-> "execute_task", intent_data |-> intent_data, context |-> context, ret |-> ret]

TasksInit ==
    /\ max_turns = 0
    /\ turns = <<>>
    /\ added = <<>>
    /\ llm_response = <<>>
    /\ processed = NotProcessed
    /\ tools = BaseTools
    /\ last_transcript = <<>>
    /\ last_response = <<>>
    /\ kb = {}
    /\ events = <<>>
    /\ crashed = FALSE
    /\ utterances = 0
    /\ last_op = "init"
    /\ AudioConstructed
    /\ GatesConstructed
    /\ TasksConstructed

RegisterTask(intent_name, handler_func) ==
    /\ Len(task_log) < MaxRegistrations
    /\ registered_tasks' = register_task(registered_tasks, intent_name, handler_func)
    /\ task_log' = Append(task_log, [intent_name |-> intent_name, handler |-> handler_func])
    /\ last_op' = "register_task"
    /\ UNCHANGED <<task_calls, task_io>>
    /\ UNCHANGED <<max_turns, turns, added, llm_response, processed, tools,
                   last_transcript, last_response, kb, events, crashed, utterances>>
    /\ UNCHANGED audio_vars
    /\ UNCHANGED gate_vars

\* execute_task returned `done`
TaskDone(intent_data, context, done) ==
    /\ task_calls' = done.invoked
    /\ task_io' = TaskIo(intent_data, context, done.ret)

ExecuteTask(intent_data, context) ==
    /\ TaskDone(intent_data, context, execute_task(registered_tasks, intent_data, context))
    /\ last_op' = "execute_task"
    /\ UNCHANGED <<registered_tasks, task_log>>
    /\ UNCHANGED <<max_turns, turns, added, llm_response, processed, tools,
                   last_transcript, last_response, kb, events, crashed, utterances>>
    /\ UNCHANGED audio_vars
    /\ UNCHANGED gate_vars

TasksNext ==
    \/ \E intent_name \in IntentNames, handler_func \in Handlers :
          RegisterTask(intent_name, handler_func)
    \/ \E intent_data \in IntentData, context \in Contexts : ExecuteTask(intent_data, context)

SpecTasks == TasksInit /\ [][TasksNext]_vars

(***************************************************************************)
(* Properties of the bounded memory (checked under SpecMem)                *)
(***************************************************************************)
\* the last n elements of s
LastOf(s, n) == Slice(s, Len(s) - n + 1, Len(s))

Smaller(a, b) == IF a <= b THEN a ELSE b

\* C1: after every add_turn and clear, the memory holds at most max_turns
\* turns, and they are the most recent min(k, max_turns) of the k turns added
\* since the last clear, in insertion order (the oldest is evicted first).
C1_BoundedFifo ==
    /\ Len(turns) <= max_turns
    /\ turns = LastOf(added, Smaller(Len(added), max_turns))

\* an add_turn has overflowed the capacity and evicted a turn
C1_Evicted ==
    /\ last_op = "add_turn"
    /\ max_turns > 0
    /\ Len(added) > max_turns
    /\ added[1] # added[Len(added)]

(***************************************************************************)
(* Properties of the tool-call codec and dispatcher                        *)
(***************************************************************************)
IsExecute(e) == e = "tool.execute"

IsAddTurn(e) == e = "add_turn"

IsSpeak(e) == e = "tts.speak_async"

HasOpen(t) == \E i \in 1..Len(t) : t[i] = OPEN

HasMarker(t) == \E i \in 1..Len(t) : HasLt(t[i])

OpenCount(t) == Cardinality({i \in 1..Len(t) : t[i] = OPEN})

Processed == last_op = "process_response_with_tools"

ToolNameOf(call) == GetOr(call, K("tool_name"), JNone)

\* a decoded call (not the parse-error marker) whose tool_name is not in the registry
Unregistered(p) ==
    /\ p.tool_used
    /\ ~Has(p.tool_call, K("error"))
    /\ ~Registered(tools, ToolNameOf(p.tool_call))

SomeRaised(p) == \E i \in 1..Len(p.invoked) : p.invoked[i].ended = "raised"

\* C2: processing one utterance invokes at most one tool executor, at most
\* once, whatever number of call spans the generated text holds.
C2_AtMostOneExecution ==
    /\ Len(SelectSeq(events, IsExecute)) <= 1
    /\ Len(processed.invoked) <= 1

\* a turn whose generated text held two call spans has invoked one executor
C2_TwoSpansOneExecution ==
    /\ last_op = "actionable"
    /\ OpenCount(llm_response) = 2
    /\ Len(processed.invoked) = 1
    /\ Len(SelectSeq(events, IsExecute)) = 1

\* C3: a call whose tool_name is not in the registry invokes no executor, and
\* execute_tool_call returns for it an 'unknown tool' error that is not the
\* parse-error marker.
C3_UnregisteredRejected ==
    Processed /\ Unregistered(processed) =>
        /\ processed.invoked = <<>>
        /\ ~processed.raised
        /\ Has(processed.tool_result, K("error"))
        /\ Contains(Get(processed.tool_result, K("error")).s, <<"Unknown tool: ">>)
        /\ processed.tool_result # PARSE_ERROR

\* C4: a generated text that holds an opening marker and no well-formed call
\* decodes to the parse-error marker, never to "no call".
C4_OpenMarkerNeverNoCall ==
    Processed /\ HasOpen(llm_response) /\ ~Has(processed.tool_call, K("tool_name")) =>
        processed.tool_call = PARSE_ERROR

\* a decode parse error, an unknown tool name or an executor exception
ToolFailure(p) ==
    \/ p.tool_used /\ p.tool_call = PARSE_ERROR
    \/ Unregistered(p)
    \/ SomeRaised(p)

\* C5: every tool failure is surfaced: the turn's final text holds the error
\* phrase, and add_turn is called exactly once, with that text as the
\* assistant response (a memory of capacity max_turns > 0 then ends with that
\* Turn).
C5_FailureSurfaced ==
    last_op = "actionable" /\ ToolFailure(processed) =>
        /\ ~crashed
        /\ Contains(last_response, <<CROSS, "Tool Error: ">>)
        /\ Len(SelectSeq(events, IsAddTurn)) = 1
        /\ max_turns > 0 =>
              /\ Len(turns) >= 1
              /\ turns[Len(turns)] = Turn(last_transcript, last_response)

\* C6: an exception raised by a tool executor (also one caused by parameters
\* of the wrong shape or with unexpected names) does not leave
\* execute_tool_call: the result is an execution error with success false,
\* and the turn goes on to the memory update and the speech.
C6_ExecutorExceptionCaught ==
    last_op = "actionable" /\ SomeRaised(processed) =>
        /\ ~processed.raised
        /\ ~crashed
        /\ GetOr(processed.tool_result, K("success"), JNone) = JFalse
        /\ Has(processed.tool_result, K("error"))
        /\ Contains(Get(processed.tool_result, K("error")).s, <<"Tool execution error: ">>)
        /\ Len(SelectSeq(events, IsAddTurn)) = 1
        /\ Len(SelectSeq(events, IsSpeak)) = 1
        /\ events[Len(events)] = "tts.speak_async"

\* a turn in which the executor was called with a parameter name it does
\* not take, and the turn has been completed
C6_MisfitCaught ==
    /\ last_op = "actionable"
    /\ SomeRaised(processed)
    /\ Has(GetOr(processed.tool_call, K("parameters"), EmptyDict), K("formula"))
    /\ ~crashed

\* two well-formed calls joined by "and" or by a newline, each delimited, each
\* after an opening marker only, each bare, or both within one pair of markers
JoinedCalls ==
    {Wrap(f, Compact(CallCalc)) \o s \o Wrap(f, Compact(c)) :
        f \in {"closed", "open", "bare"}, s \in Separators, c \in {CallCalc, CallUnknown}}
    \cup {Wrap("open", Compact(CallCalc)) \o s \o Wrap("tail", Compact(c)) :
            s \in Separators, c \in {CallCalc, CallUnknown}}

\* C7: for two well-formed calls joined by "and" or by a newline, in any of
\* the accepted forms, parse_tool_call returns the first call, and that call
\* alone is dispatched.
C7_FirstCallOnly ==
    Processed /\ llm_response \in JoinedCalls =>
        /\ processed.tool_call = CallCalc
        /\ Len(processed.invoked) = 1
        /\ processed.invoked[1].tool = "calculator"

\* C8: a hand-built call to a registered tool, written in the layout of the
\* prompt, decodes to a call with the same tool_name and parameters.
C8_RoundTrip ==
    \A c \in HandBuiltCalls :
        Processed /\ llm_response = Wrap("closed", Pretty(c)) =>
            /\ ToolNameOf(processed.tool_call) = ToolNameOf(c)
            /\ GetOr(processed.tool_call, K("parameters"), JNone) = Get(c, K("parameters"))

\* the whitespace normalisation of the clean-up
Normalised(t) == Strip(CollapseBlankLines(t))

\* a line of the text is a bare call
HasBareCall(t) == MatchBare(Strip(t)).hit

\* C9 as stated: for a text without a delimited call span,
\* process_response_with_tools reports no tool used and the text as content,
\* and the clean-up applied to its own result changes nothing.
C9_NoSpanNoTool ==
    Processed /\ ~HasOpen(llm_response) =>
        /\ ~processed.tool_used
        /\ processed.content = llm_response
        /\ CleanResponse(CleanResponse(llm_response)) = CleanResponse(llm_response)

\* C9, amended: for a text without a call marker the clean-up changes the
\* whitespace only and, applied to its own result, changes nothing;
\* process_response_with_tools reports no tool used and the text as content
\* when no line of it is a bare call, and a tool used and the normalised
\* text as content when one is.
C9_NoMarker ==
    Processed /\ ~HasMarker(llm_response) =>
        /\ CleanResponse(llm_response) = Normalised(llm_response)
        /\ CleanResponse(CleanResponse(llm_response)) = CleanResponse(llm_response)
        /\ ~HasBareCall(llm_response) =>
              ~processed.tool_used /\ processed.content = llm_response
        /\ HasBareCall(llm_response) =>
              processed.tool_used /\ processed.content = Normalised(llm_response)

\* a text without a marker, of prose with a blank line and a bare call, has
\* been processed and its content normalised
C9_ProseAndBareCall ==
    /\ Processed
    /\ ~HasMarker(llm_response)
    /\ HasBareCall(llm_response)
    /\ processed.tool_used
    /\ processed.content # llm_response

\* one delimited well-formed call and nothing else, compact or in the layout
\* of the prompt
SoleCall(t) ==
    \E c \in {CallCalc, CallWeather} :
        t \in {Wrap("closed", Compact(c)), Wrap("closed", Pretty(c))}

\* the executor was called once and returned a success payload
ReturnedSuccess(p) ==
    /\ Len(p.invoked) = 1
    /\ p.invoked[1].ended = "returned"
    /\ ~Has(GetOr(p.tool_result, K("result"), EmptyDict), K("error"))

\* the value a success payload carries for the user
ResultValue(result) ==
    IF Has(result, K("formatted_result")) THEN Get(result, K("formatted_result")).s
    ELSE Get(result, K("summary")).s

\* C10: when the generated text is one delimited well-formed call to a
\* registered tool and nothing else, and the executor returns a success
\* payload, the dispatch succeeds, the stripped prose is empty and the final
\* text is the formatted tool result, which holds the payload's value.
C10_SoleCallSpoken ==
    last_op = "actionable" /\ SoleCall(llm_response) /\ ReturnedSuccess(processed) =>
        /\ Get(processed.tool_result, K("success")) = JTrue
        /\ processed.content = <<>>
        /\ last_response = format_tool_result_for_user(processed.tool_result)
        /\ Contains(last_response, ResultValue(Get(processed.tool_result, K("result"))))

\* the turn of a sole call to the calculator that returned its result
C10_CalculatorSpoken ==
    /\ last_op = "actionable"
    /\ llm_response = Wrap("closed", Compact(CallCalc))
    /\ ReturnedSuccess(processed)
    /\ last_response # <<>>

(***************************************************************************)
(* Properties of the gates of the turn (checked under Spec)                *)
(***************************************************************************)
\* the steps of a turn behind the gates
IsPipelineStep(e) ==
    e \in {"is_actionable", "is_contextable", "retrieve_context", "get_tools_prompt",
           "llm.generate", "tool.execute", "add_turn", "add_to_knowledge_base"}

IsGeneration(e) ==
    e \in {"retrieve_context", "get_tools_prompt", "llm.generate", "tool.execute"}

\* a turn has run in this step
TurnRan == utterances' = utterances + 1

\* the transcriptions that are the reserved phrase up to case and outer whitespace
ReservedPhrases == {tr \in Transcripts : \E i \in 1..Len(tr) : tr[i] \in {"reset memory", "Reset Memory"}}

\* C11: a turn whose transcription is the reserved phrase "reset memory"
\* (after trimming and lowercasing) empties the memory, answers with the
\* fixed confirmation and skips every other step: no classifier, retrieval,
\* generation or tool dispatch, no add_turn, nothing persisted.
C11_ResetShortCircuits ==
    [][TurnRan /\ last_transcript' \in ReservedPhrases =>
          /\ turns' = <<>>
          /\ last_response' = RESET_CONFIRMATION
          /\ SelectSeq(events', IsPipelineStep) = <<>>
          /\ kb' = kb
          /\ processed' = processed]_vars

\* the reset command has been obeyed after an earlier turn was persisted
C11_ResetAfterTurn ==
    /\ last_op = "reset"
    /\ utterances = 2
    /\ kb # {}
    /\ max_turns > 0
    /\ turns = <<>>

\* C12: a turn on a non-blank utterance that is not the reset command and
\* that the actionable gate rejects answers with the fixed acknowledgment,
\* runs no retrieval, generation or tool dispatch, and calls add_turn exactly
\* once with (user_text, acknowledgment).
C12_NotActionableAcknowledged ==
    [][TurnRan /\ last_op' = "non_actionable" =>
          /\ last_response' = ACKNOWLEDGMENT
          /\ SelectSeq(events', IsGeneration) = <<>>
          /\ processed' = processed
          /\ Len(SelectSeq(events', IsAddTurn)) = 1
          /\ max_turns > 0 =>
                /\ Len(turns') >= 1
                /\ turns'[Len(turns')] = Turn(last_transcript', ACKNOWLEDGMENT)]_vars

\* a rejected utterance has been acknowledged and recorded in a memory that
\* was full
C12_AcknowledgedWhenFull ==
    /\ last_op = "non_actionable"
    /\ utterances = 2
    /\ max_turns = 1
    /\ turns = <<Turn(last_transcript, ACKNOWLEDGMENT)>>

\* C13: a turn whose transcription is blank after trimming has no side
\* effect: memory and retrieval store unchanged, no classifier, generation
\* or tool dispatch, nothing spoken.
C13_BlankAborts ==
    [][TurnRan /\ Strip(last_transcript') = <<>> =>
          /\ turns' = turns
          /\ kb' = kb
          /\ last_response' = last_response
          /\ processed' = processed
          /\ events' = <<"stt.transcribe">>]_vars

\* a blank transcription has come after a turn that was recorded
C13_BlankAfterTurn ==
    /\ last_op = "blank"
    /\ utterances = 2
    /\ turns # <<>>
    /\ last_response # <<>>

(***************************************************************************)
(* Properties of capture, queue and segmentation (checked under SpecAudio) *)
(***************************************************************************)
\* the silence, in quarters of a second, between the newest frame with
\* activity of an utterance and the end of the frame that ended it
SilenceBefore(u) == (u.ended_by.block - NewestBlock(u.audio)) * BLOCK_DURATION

\* the frames of a buffer are not consecutive blocks: frames without
\* activity lay between them
HasPause(buffer) == \E j \in 1..(Len(buffer) - 1) : buffer[j + 1].block > buffer[j].block + 1

\* this step examines a frame / hands an utterance over / captures a frame
Examines == consumed' # consumed
Emits    == emitted' # emitted
Captures == captured' # captured

\* the frame the next round of the loop examines
NextFrame == Head(audio_queue)

\* the block that is complete has not been delivered yet
FrameDue == Len(captured) * BLOCK_DURATION + BLOCK_DURATION <= now

C15_EmitExactlyAfterHangover ==
    [][/\ Emits => Examines
       /\ Examines =>
             /\ Emits <=> /\ speech_active
                          /\ ~NextFrame.speech
                          /\ now - last_speech_time > HANGOVER
             /\ Emits => /\ emitted' = Append(emitted, Utterance(buffered_audio, NextFrame, now))
                         /\ in_flight' = in_flight + 1
             /\ in_flight = 0]_vars

\* an utterance is being processed that two frames without activity did not
\* end (the second examined at the threshold exactly) and the third did
C15_EmittedAtThirdSilentFrame ==
    /\ in_flight = 1
    /\ emitted # <<>>
    /\ emitted[Len(emitted)].ended_by.block - NewestBlock(emitted[Len(emitted)].audio) = 3

\* C16: every utterance handed over holds at least one frame, and all its
\* frames are frames with activity; the machine is ACTIVE only with a
\* non-empty buffer.
C16_UtteranceHasSpeech ==
    /\ \A i \in 1..Len(emitted) :
          /\ emitted[i].audio # <<>>
          /\ \A j \in 1..Len(emitted[i].audio) : emitted[i].audio[j].speech
    /\ speech_active => buffered_audio # <<>>
    /\ \A j \in 1..Len(buffered_audio) : buffered_audio[j].speech

\* a second utterance has been handed over, made of one frame
C16_SecondUtteranceOfOneFrame ==
    /\ Len(emitted) = 2
    /\ Len(emitted[2].audio) = 1

\* C17: examining a frame without activity while ACTIVE within the hangover
\* window, or while IDLE, changes neither the buffer nor the ACTIVE/IDLE
\* state nor the last-speech time, and hands no utterance over.
C17_SilentFrameNoEffect ==
    [][/\ Examines
       /\ ~NextFrame.speech
       /\ ~speech_active \/ now - last_speech_time <= HANGOVER
       => /\ buffered_audio' = buffered_audio
          /\ speech_active' = speech_active
          /\ last_speech_time' = last_speech_time
          /\ emitted' = emitted
          /\ in_flight' = in_flight]_vars

\* the machine is still ACTIVE after a frame without activity examined at
\* the threshold exactly
C17_StillActiveAtThreshold ==
    /\ speech_active
    /\ in_flight = 0
    /\ consumed # <<>>
    /\ ~consumed[Len(consumed)].speech
    /\ audio_queue = <<>>
    /\ now - last_speech_time = HANGOVER

\* C18: at most one turn is in flight; while it is, no frame is examined and
\* no other utterance is handed over, frames captured meanwhile wait in the
\* queue; a turn ends only if it was begun.
C18_OneTurnInFlight ==
    [][/\ in_flight' \in {0, 1}
       /\ in_flight > 0 => /\ ~Examines
                           /\ ~Emits
                           /\ Captures => Len(audio_queue') = Len(audio_queue) + 1
       /\ utterances' # utterances => in_flight = 1 /\ in_flight' = 0]_vars

\* the second turn is in flight and frames captured meanwhile wait
C18_FramesWaitDuringSecondTurn ==
    /\ in_flight = 1
    /\ Len(emitted) = 2
    /\ utterances = 1
    /\ Len(audio_queue) >= 1

\* C19: the callback never waits: whenever a block is complete the put is
\* possible, whatever the consumer does; the frames got are the frames
\* captured, each once and in capture order, the rest waits in the queue.
C19_NonBlockingFifo ==
    /\ captured = consumed \o audio_queue
    /\ FrameDue => ENABLED (\E speech \in BOOLEAN : AudioCallback(speech))

\* a block is complete while a turn is in flight and frames wait already
C19_CaptureDuringTurn ==
    /\ in_flight = 1
    /\ FrameDue
    /\ Len(audio_queue) >= 2
    /\ consumed # <<>>

\* the capacity that the frames waiting are tested against
ClaimedCapacity == 3

\* C20 (as stated): the number of frames waiting never exceeds a fixed
\* capacity, also while the consumer is busy with a turn.
C20_QueueBounded == Len(audio_queue) <= ClaimedCapacity

\* C20 (amended): the queue has no capacity: every frame captured makes it
\* one longer, however many wait, and the number waiting is the number
\* captured and not yet got.
C20_QueueGrowsWithCapture ==
    [][/\ Captures => Len(audio_queue') = Len(audio_queue) + 1
       /\ Len(audio_queue') = Len(captured') - Len(consumed')]_vars

\* more frames than the capacity tested wait while a turn is in flight
C20_BacklogDuringTurn ==
    /\ in_flight = 1
    /\ Len(audio_queue) > ClaimedCapacity

(***************************************************************************)
(* Properties of the degraded paths of the turn                            *)
(***************************************************************************)
\* the latest turn went through the two gates
Gated == last_op \in {"non_actionable", "actionable", "fault"}

\* the fallback result of a classifier: negative label, confidence 0
DefaultLabel == Classified("negative", 0, FALSE)

IsPersist(e)  == e = "add_to_knowledge_base"
NotPersist(e) == e # "add_to_knowledge_base"

\* the place of a call in the order of the steps of a turn
Rank(e) ==
    CASE e = "stt.transcribe"        -> 0
      [] e = "memory.clear"          -> 1
      [] e = "is_actionable"         -> 2
      [] e = "is_contextable"        -> 3
      [] e = "retrieve_context"      -> 4
      [] e = "get_tools_prompt"      -> 5
      [] e = "llm.generate"          -> 6
      [] e = "tool.execute"          -> 7
      [] e = "add_turn"              -> 8
      [] e = "add_to_knowledge_base" -> 9
      [] e = "tts.speak_async"       -> 10

InOrderOnce(calls) == \A i \in 1..(Len(calls) - 1) : Rank(calls[i]) < Rank(calls[i + 1])

\* the texts of the turns of a memory
TextsIn(stored) == {stored[i].user : i \in 1..Len(stored)} \cup {stored[i].assistant : i \in 1..Len(stored)}

\* C21 (as stated): a failure raised by the retrieval store or by the
\* generation backend during a turn is caught within the turn: the loop is
\* not left, a Turn is recorded, and once the turn has ended the
\* segmentation machine is IDLE with an empty buffer.
C21_FaultsNotFatal ==
    last_op = "fault" =>
        /\ ~crashed
        /\ Len(SelectSeq(events, IsAddTurn)) = 1
        /\ in_flight = 0 => buffered_audio = <<>> /\ ~speech_active

\* C22: a classifier that is unavailable or fails answers with the fixed
\* default label (negative, confidence 0) and the turn goes on: with the
\* actionable classifier degraded the turn takes the non-actionable path
\* (fixed acknowledgment, add_turn called once), with the contextable
\* classifier degraded nothing is persisted.
C22_ClassifierDegrades ==
    /\ Gated /\ last_actionable.confidence = 0 =>
          /\ last_actionable = DefaultLabel
          /\ last_op = "non_actionable"
          /\ ~crashed
          /\ last_response = ACKNOWLEDGMENT
          /\ Len(SelectSeq(events, IsAddTurn)) = 1
          /\ max_turns > 0 => turns # <<>> /\ turns[Len(turns)] = Turn(last_transcript, ACKNOWLEDGMENT)
    /\ Gated /\ last_contextable.confidence = 0 =>
          /\ last_contextable = DefaultLabel
          /\ SelectSeq(events, IsPersist) = <<>>

\* both classifiers were degraded in the second turn and the turn was
\* acknowledged and recorded
C22_BothDegraded ==
    /\ last_op = "non_actionable"
    /\ utterances = 2
    /\ last_actionable = DefaultLabel
    /\ last_contextable = DefaultLabel
    /\ turns # <<>>

\* C23 (as stated): whatever path the turn of a non-blank utterance that is
\* not the reset command takes, add_turn is called exactly once and, the
\* capacity being positive, the Turn (user_text, response) is the newest of
\* the memory when the turn is over.
C23_EveryPathRecordsTurn ==
    [][/\ TurnRan
       /\ Strip(last_transcript') # <<>>
       /\ last_transcript' \notin ReservedPhrases
       => /\ Len(SelectSeq(events', IsAddTurn)) = 1
          /\ max_turns > 0 =>
                /\ turns' # <<>>
                /\ turns'[Len(turns')] = Turn(last_transcript', last_response')]_vars

C27_StepsInOrder ==
    [][TurnRan /\ SelectSeq(events', LAMBDA e : e = "llm.generate") # <<>> =>
          /\ InOrderOnce(events')
          /\ user_input'.question = last_transcript'
          /\ user_input'.contexts \subseteq kb
          /\ \A i \in 1..Len(user_input'.history) :
                user_input'.history[i].text \in TextsIn(turns)
          /\ Len(user_input'.history) <= 2 * Len(turns)]_vars

\* the second turn ran every step, with a request that held the first turn
\* and a context retrieved from the store
C27_FullTurnWithHistory ==
    /\ last_op = "actionable"
    /\ utterances = 2
    /\ events = <<"stt.transcribe", "is_actionable", "is_contextable", "retrieve_context",
                  "get_tools_prompt", "llm.generate", "tool.execute", "add_turn",
                  "add_to_knowledge_base", "tts.speak_async">>
    /\ user_input.history # <<>>
    /\ user_input.contexts # {}

(***************************************************************************)
(* Properties of the TaskExecutor (checked under SpecTasks)                *)
(***************************************************************************)
\* the registrations under a name, in order
RegistrationsOf(log, intent_name) ==
    SelectSeq(log, LAMBDA r : r.intent_name = intent_name)

\* the handler most recently registered under a name that has one
MostRecent(log, intent_name) ==
    RegistrationsOf(log, intent_name)[Len(RegistrationsOf(log, intent_name))].handler

\* this step is an execute_task / a register_task
Executes  == last_op' = "execute_task" /\ task_io' # None
Registers == task_log' # task_log

\* C25: execute_task for a name that was registered calls the handler most
\* recently registered under it, once, with the given (intent_data,
\* context), and returns what that handler returns; register_task sets the
\* entry of its name and leaves the entries of the other names as they were.
C25_MostRecentHandler ==
    [][/\ Executes /\ RegistrationsOf(task_log, IntentNameOf(task_io'.intent_data)) # <<>> =>
             /\ task_calls' = <<HandlerCall(MostRecent(task_log, IntentNameOf(task_io'.intent_data)),
                                            task_io'.intent_data, task_io'.context)>>
             /\ task_io'.ret = HandlerResult(MostRecent(task_log, IntentNameOf(task_io'.intent_data)),
                                             task_io'.intent_data, task_io'.context)
             /\ registered_tasks' = registered_tasks
       /\ Registers =>
             /\ DOMAIN registered_tasks' = DOMAIN registered_tasks \cup {task_log'[Len(task_log')].intent_name}
             /\ \A n \in DOMAIN registered_tasks' :
                   registered_tasks'[n] = IF n = task_log'[Len(task_log')].intent_name
                                          THEN task_log'[Len(task_log')].handler
                                          ELSE registered_tasks[n]]_vars

\* a name registered twice, with two handlers, has been executed, another
\* name being registered too
C25_ExecutedAfterOverwrite ==
    /\ last_op = "execute_task"
    /\ task_calls # <<>>
    /\ Len(task_log) = 3
    /\ task_log[1].intent_name = task_log[3].intent_name
    /\ task_log[1].handler # task_log[3].handler
    /\ task_log[2].intent_name # task_log[1].intent_name
    /\ task_calls[1].handler = task_log[3].handler
    /\ IntentNameOf(task_io.intent_data) = task_log[3].intent_name

\* C26: execute_task for an intent name that has no handler (intent data
\* without the "intent" field stand for the name "unknown") calls no
\* handler, leaves the registry as it was and returns the failure result.
C26_NoHandlerFails ==
    [][Executes /\ IntentNameOf(task_io'.intent_data) \notin DOMAIN registered_tasks =>
          /\ task_calls' = <<>>
          /\ registered_tasks' = registered_tasks
          /\ task_io'.ret.success = FALSE
          /\ task_io'.ret.message[1] = "No handler registered for intent: "
          /\ task_io'.ret.message[2] = IntentNameOf(task_io'.intent_data)
          /\ task_io'.ret.response = "I'm not sure how to handle that request."]_vars

\* intent data without the "intent" field have been refused by a registry
\* that holds handlers
C26_NoIntentFieldRefused ==
    /\ last_op = "execute_task"
    /\ "intent" \notin DOMAIN task_io.intent_data
    /\ DOMAIN registered_tasks = {"intent1", "intent2"}
    /\ task_io.ret.success = FALSE
    /\ task_calls = <<>>

(***************************************************************************)
(* The decode strategies and the formatter (SpecCodec)                     *)
(***************************************************************************)
\* the four patterns of parse_tool_call in the order in which the code
\* tries them: the fully delimited block, the two patterns for a block
\* without its closing marker, and the bare value (searched in
\* response.strip())
Strategies(response) ==
    << MatchComplete(response), MatchIncomplete(response), MatchFlexible(response),
       MatchBare(Strip(response)) >>

\* the strategies that yield a value: the pattern matches and its group is
\* not blank
Yielding(response) ==
    {n \in 1..4 : Strategies(response)[n].hit /\ Strip(Strategies(response)[n].g) # <<>>}

\* the value of the first strategy that yields one
FirstYield(response) == Strip(Strategies(response)[Min(Yielding(response))].g)

\* C28: parse_tool_call takes its result from the first strategy, in the
\* order fully delimited block, block without closing marker, bare value,
\* that yields a value: the result is what the decoding of that strategy's
\* value gives; when no strategy yields a value the result is None and
\* process_response_with_tools returns the generated text unchanged as a
\* normal response.
C28_FirstStrategyDecides ==
    Processed =>
        IF Yielding(llm_response) = {}
        THEN /\ parse_tool_call(llm_response) = JNone
             /\ processed = NormalResponse(llm_response)
        ELSE /\ parse_tool_call(llm_response) = ParseJson(FirstYield(llm_response))
             /\ processed.tool_used
             /\ processed.tool_call = ParseJson(FirstYield(llm_response))

\* the value extracted from the generated text is a well-formed object
ExtractedObject ==
    /\ ToolCallJson(llm_response) # <<>>
    /\ Head(ToolCallJson(llm_response)) = LB
    /\ JsonLoads(ToolCallJson(llm_response)).ok
    /\ JsonLoads(ToolCallJson(llm_response)).val.k = "obj"

Extracted == JsonLoads(ToolCallJson(llm_response)).val

\* {"tool_name": "calculator", "parameters": extracted}
Repaired(extracted) ==
    JObj(<<Member(K("tool_name"), JStr(<<"calculator">>)), Member(K("parameters"), extracted)>>)

\* C29: when the extracted value is a well-formed object with the key
\* "expression" and without "tool_name", parse_tool_call returns the call of
\* "calculator" whose parameters are the extracted object; when it is a
\* well-formed object without "expression" that lacks "tool_name" or
\* "parameters", parse_tool_call returns the parse-error marker.
C29_CalculatorRepair ==
    Processed /\ ExtractedObject =>
        /\ Has(Extracted, K("expression")) /\ ~Has(Extracted, K("tool_name")) =>
               /\ parse_tool_call(llm_response) = Repaired(Extracted)
               /\ processed.tool_call = Repaired(Extracted)
        /\ /\ ~Has(Extracted, K("expression"))
           /\ ~(Has(Extracted, K("tool_name")) /\ Has(Extracted, K("parameters")))
           => /\ parse_tool_call(llm_response) = PARSE_ERROR
              /\ processed.tool_call = PARSE_ERROR

\* an abbreviated calculator call was repaired and the calculator ran on it
C29_RepairedAndExecuted ==
    /\ Processed
    /\ ExtractedObject
    /\ Extracted = Param("expression", <<"2+2">>)
    /\ processed.tool_call = Repaired(Extracted)
    /\ processed.invoked # <<>>
    /\ GetOr(processed.tool_result, K("success"), JFalse) = JTrue

(***************************************************************************)
(* Properties of the formatter (checked under SpecFormat)                  *)
(***************************************************************************)
Formatted == last_op = "format_tool_result_for_user"

\* the result of a dispatch that failed: the parse-error marker, an unknown
\* tool, an exception of the executor, an error reported by the tool
FailedResult(r) ==
    \/ r = PARSE_ERROR
    \/ r = UnknownToolError(GetOr(processed.tool_call, K("tool_name"), JNone))
    \/ r = ExecutionError(GetOr(processed.tool_call, K("tool_name"), JNone),
                          GetOr(processed.tool_call, K("parameters"), EmptyDict))
    \/ Has(GetOr(r, K("result"), EmptyDict), K("error"))

\* the result of an executor that returned a payload without "error"
SucceededResult(r) ==
    /\ Len(processed.invoked) = 1
    /\ processed.invoked[1].ended = "returned"
    /\ Has(r, K("result"))
    /\ ~Has(Get(r, K("result")), K("error"))

\* the tool names format_tool_result_for_user has a rule for
RuledTools == {"calculator", "weather_checker", "google_calendar"}

IsErrorPhrase(text) == text # <<>> /\ Head(text) = CROSS

\* C30: format_tool_result_for_user gives a text for every result that
\* parse_tool_call and execute_tool_call produce: an error phrase for a
\* failed result (parse error, unknown tool, exception of the executor,
\* error reported by the tool), no error phrase for a successful result,
\* and for a successful result of a tool without a rule of its own the
\* fallback "<tool_name>: <dump of the result>".
C30_FormatTotal ==
    Formatted =>
        /\ ~crashed
        /\ last_response # <<>>
        /\ FailedResult(processed.tool_result) => IsErrorPhrase(last_response)
        /\ SucceededResult(processed.tool_result) => ~IsErrorPhrase(last_response)
        /\ /\ SucceededResult(processed.tool_result)
           /\ processed.invoked[1].tool \notin RuledTools
           => last_response =
                  <<WRENCH>> \o Get(processed.tool_result, K("tool_name")).s \o <<": ">>
                  \o RawDump(Get(processed.tool_result, K("result")))

(***************************************************************************)
(* Properties of the segmentation as a whole (checked under SpecAudio)     *)
(***************************************************************************)
\* the loop of run is between two frames: no _process_speech is running
BetweenFrames == in_flight = 0

\* _process_speech returns in this step (no exception left it)
TurnReturns == in_flight' = in_flight - 1 /\ ~crashed'

\* C31: between two frames speech_active is true exactly when the buffer is
\* not empty, and when _process_speech returns, by whichever of its paths
\* (blank transcription, reset command, not actionable, generated response
\* with or without a tool), speech_active is false and the buffer is empty.
C31_ActiveIffBuffered ==
    /\ BetweenFrames => (speech_active <=> buffered_audio # <<>>)
    /\ [][ /\ BetweenFrames' => (speech_active' <=> buffered_audio' # <<>>)
           /\ TurnReturns => ~speech_active' /\ buffered_audio' = <<>> ]_vars

\* a turn with a generated response has returned and the machine is idle
\* with an empty buffer, the frames that came meanwhile examined
C31_IdleAfterGeneratedTurn ==
    /\ BetweenFrames
    /\ last_op = "actionable"
    /\ ~crashed
    /\ ~speech_active
    /\ buffered_audio = <<>>
    /\ Len(consumed) > emitted[Len(emitted)].ended_by.block

IsSpeechFrame(frame) == frame.speech

\* the frame at which the utterance before the i-th was emitted (0: none)
EndOfPrevious(i) == IF i = 1 THEN 0 ELSE emitted[i - 1].ended_by.block

\* the frames with voice activity among the frames examined after frame a
\* and before frame b, in the order of their arrival
SpeechBetween(a, b) == SelectSeq(Slice(consumed, a + 1, b - 1), IsSpeechFrame)

\* the places (utterance, position) at which a frame is found in the
\* utterances emitted
PlacesOf(frame) ==
    {<<i, n>> \in (1..Len(emitted)) \X (1..Len(consumed)) :
        n <= Len(emitted[i].audio) /\ emitted[i].audio[n] = frame}

\* C32: every utterance emitted is the concatenation, in the order of
\* arrival, of the frames with voice activity examined since the emission
\* before it; every frame with voice activity examined before an emission
\* is in exactly one utterance, once; no frame without voice activity is in
\* any utterance.
C32_FrameConservation ==
    /\ \A i \in 1..Len(emitted) :
           emitted[i].audio = SpeechBetween(EndOfPrevious(i), emitted[i].ended_by.block)
    /\ \A n \in 1..Len(consumed) :
           IF consumed[n].speech
           THEN Len(emitted) > 0 /\ n < emitted[Len(emitted)].ended_by.block
                    => Cardinality(PlacesOf(consumed[n])) = 1
           ELSE PlacesOf(consumed[n]) = {}

\* two utterances were emitted, the second of them of two frames
C32_SecondUtteranceOfTwoFrames ==
    /\ Len(emitted) = 2
    /\ Len(emitted[2].audio) = 2

\* the time at which the last frame of the span followed is complete
LastFrameTime == MaxTime - (MaxTime % BLOCK_DURATION)

\* the last block after which the span followed still holds a frame that
\* is later than the threshold
LastSpeechBlock == (LastFrameTime - HANGOVER) \div BLOCK_DURATION - 1

\* from frame LastSpeechBlock on no frame has voice activity
SilentFromThenOn ==
    \A n \in (LastSpeechBlock + 1)..Len(captured) : ~captured[n].speech

\* no _process_speech is still running, with frames of speech waiting,
\* when the frames that are left are too few for the threshold to pass
TurnsEndInTime ==
    ~(/\ in_flight > 0
      /\ now >= LastFrameTime - HANGOVER
      /\ \E n \in 1..Len(audio_queue) : audio_queue[n].speech)

\* the premises of the claim within the span followed
SilenceGoesOn == SilentFromThenOn /\ TurnsEndInTime /\ ~crashed

\* every frame of speech captured is in an utterance emitted and the
\* machine is idle
EmittedAndIdle ==
    /\ ~speech_active
    /\ buffered_audio = <<>>
    /\ in_flight = 0
    /\ \A n \in 1..Len(captured) : captured[n].speech => PlacesOf(captured[n]) # {}

\* C33: when from some frame on no frame has voice activity, while frames
\* go on being delivered and every _process_speech ends, the utterance
\* buffered is eventually emitted and the machine is eventually idle, and
\* stays so.
C33_EventuallyEmitted == [](SilenceGoesOn) => <>[](EmittedAndIdle)

\* speech up to the last block allowed was emitted after the silence that
\* followed it
C33_LastSpeechEmitted ==
    /\ EmittedAndIdle
    /\ ~crashed
    /\ SilentFromThenOn
    /\ Len(captured) > LastSpeechBlock
    /\ captured[LastSpeechBlock].speech

\* the captured silence between two frames: the blocks between them
SilenceBetween(f, g) == (g.block - f.block - 1) * BLOCK_DURATION

\* no two neighbours of the segment are separated by more than the
\* threshold of captured silence
OneSpan(audio) ==
    \A n \in 1..(Len(audio) - 1) : SilenceBetween(audio[n], audio[n + 1]) <= HANGOVER

\* C34: the utterances depend on the captured frames and their verdicts
\* only, not on how long the frames waited in the queue: two spans of
\* speech separated by more than the threshold of captured silence are
\* never gathered into one utterance, also when their frames waited during
\* a turn and are examined in a burst.
C34_SegmentsByCapture ==
    /\ \A i \in 1..Len(emitted) : OneSpan(emitted[i].audio)
    /\ OneSpan(buffered_audio)

(***************************************************************************)
(* Properties of the clean-up (checked under SpecCodec)                    *)
(***************************************************************************)
\* C35: whenever process_response_with_tools found a call (tool_used), the
\* content it returns holds neither a marker nor the text of the call that
\* was extracted (a value in braces; the prose of the texts has none),
\* whichever pattern extracted it (both markers, the opening marker only,
\* with or without prose behind the call, no marker).
C35_CallStripped ==
    Processed /\ processed.tool_used =>
        /\ \A n \in 1..Len(processed.content) : ~HasLt(processed.content[n])
        /\ Head(ToolCallJson(llm_response)) = LB =>
               ~Contains(processed.content, ToolCallJson(llm_response))

(***************************************************************************)
(* Properties of the end of the turn (checked under Spec)                  *)
(***************************************************************************)
\* the calls of tts.speak_async in the turn of this step; the text spoken is
\* self.last_response
SpeechCalls == Len(SelectSeq(events', IsSpeak))

\* C36: an utterance causes at most one call of the speech output: none for
\* a blank transcription, one with the fixed confirmation for the reset
\* command, and otherwise one whose text is the assistant text of the Turn
\* that add_turn appended for the utterance (none when that text is empty).
C36_OneSpeechCall ==
    [][TurnRan =>
          /\ SpeechCalls <= 1
          /\ Strip(last_transcript') = <<>> => SpeechCalls = 0
          /\ last_transcript' \in ReservedPhrases =>
                SpeechCalls = 1 /\ last_response' = RESET_CONFIRMATION
          /\ Strip(last_transcript') # <<>> /\ last_transcript' \notin ReservedPhrases =>
                /\ Len(SelectSeq(events', IsAddTurn)) = 1
                /\ SpeechCalls = (IF last_response' = <<>> THEN 0 ELSE 1)
                /\ max_turns > 0 =>
                      /\ turns' # <<>>
                      /\ turns'[Len(turns')].assistant = last_response']_vars

\* the calls of add_to_knowledge_base in the turn of this step
PersistCalls == Len(SelectSeq(events', IsPersist))

\* C37: user_text is persisted to the retrieval store during a turn if and
\* only if the transcription is not blank, is not the reset command and the
\* contextable verdict is true, whatever the actionable verdict; a turn
\* persists at most once.
C37_PersistIffContextable ==
    [][TurnRan =>
          /\ PersistCalls <= 1
          /\ PersistCalls = 1 <=>
                /\ Strip(last_transcript') # <<>>
                /\ last_transcript' \notin ReservedPhrases
                /\ last_contextable'.verdict]_vars

\* the two newest stored turns are refusals
TwoRefusals ==
    /\ Len(turns) >= 2
    /\ Contains(turns[Len(turns)].assistant, <<REFUSAL>>)
    /\ Contains(turns[Len(turns) - 1].assistant, <<REFUSAL>>)

\* the turn of this step is one that starts with the automatic reset
AutoResets ==
    /\ Strip(last_transcript') # <<>>
    /\ last_transcript' \notin ReservedPhrases
    /\ TwoRefusals

\* the memory after the step is neither the memory before it nor what
\* add_turn (with its eviction) makes of the memory before it
LosesTurns ==
    /\ turns' # turns
    /\ turns' # add_turn(max_turns, turns, last_transcript', last_response')

\* the generation request of the turn of this step was composed and sent
RequestSent == \E i \in 1..Len(events') : events'[i] = "llm.generate"

\* C38: the memory loses turns other than by eviction in exactly two
\* situations, the reset command and the automatic reset at the start of a
\* non-blank, non-reset turn that finds the two newest assistant texts to be
\* refusals; after an automatic reset the generation request has an empty
\* history and, when the turn completes, the memory holds exactly the Turn
\* of the current utterance.
C38_LossOnlyByReset ==
    [][TurnRan =>
          /\ LosesTurns <=>
                \/ last_transcript' \in ReservedPhrases /\ turns # <<>>
                \/ AutoResets
          /\ AutoResets /\ RequestSent => user_input'.history = <<>>
          /\ AutoResets /\ ~crashed' =>
                turns' = <<Turn(last_transcript', last_response')>>]_vars

\* an actionable turn that started with the automatic reset has completed
C38_AutoResetTurnCompleted ==
    /\ utterances = 3
    /\ last_op = "actionable"
    /\ ~crashed
    /\ \E i \in 1..Len(events) : events[i] = "memory.clear"
    /\ \E i \in 1..Len(events) : events[i] = "llm.generate"
    /\ user_input.history = <<>>
    /\ turns = <<Turn(last_transcript, last_response)>>

(***************************************************************************)
(* The tools a generation request presents (tool_manager.py:                *)
(* get_tools_prompt; qwen_llm.py, phi4_mini_llm.py: generate)               *)
(***************************************************************************)
\* llm.model_type of the configuration: Phi4MiniLLM for "phi4mini", QwenLLM
\* for "qwen3" and for every other value
ModelTypes == {"qwen3", "phi4mini"}

\* the tools named by the fixed text of get_tools_prompt (usage guidelines
\* and examples, written whatever self.tools holds)
GuidelineTools == {"calculator", "weather_checker", "google_calendar"}

\* the tool names in the text get_tools_prompt returns: one block for each
\* registered tool, then the fixed guidelines and examples
get_tools_prompt(registry) == registry \cup GuidelineTools

\* the names in the JSON list of _convert_tools_to_phi4_format, which does
\* not read the prompt it is given
convert_tools_to_phi4_format(tools_prompt) ==
    {"calculator", "weather_checker", "calendar_scheduler"}

\* the tools the prompt of generate presents: QwenLLM appends tools_prompt
\* to the system prompt, Phi4MiniLLM puts the converted list in the tool
\* block instead of it
AdvertisedTools(model_type, registry) ==
    IF model_type = "phi4mini"
    THEN convert_tools_to_phi4_format(get_tools_prompt(registry))
    ELSE get_tools_prompt(registry)

\* the dispatcher has answered the call with "Unknown tool: <name>"
RejectedAsUnknown ==
    /\ last_op = "execute_tool_call"
    /\ processed.tool_call # PARSE_ERROR
    /\ ~Has(processed.tool_call, K("error"))
    /\ Get(processed.tool_call, K("tool_name")).k = "str"
    /\ processed.tool_result = UnknownToolError(Get(processed.tool_call, K("tool_name")))

\* C39: with either backend, every tool the generation request presents as
\* callable is registered in the dispatcher's table, also when the calendar
\* tool failed to load; hence a call of a presented tool is never answered
\* with the unknown-tool error.
C39_AdvertisedAreRegistered ==
    \A model_type \in ModelTypes :
        /\ AdvertisedTools(model_type, tools) \subseteq tools
        /\ RejectedAsUnknown =>
               Get(processed.tool_call, K("tool_name")).s[1]
                   \notin AdvertisedTools(model_type, tools)


====
